---- MODULE Spec2Model ----
(***************************************************************************)
(* The Feedback Transformation Pipeline of the empathetic code reviewer:   *)
(* severity classification, pattern detection, tone selection, prompt and  *)
(* report composition, and the request path around them (reviewer          *)
(* construction, the completion call, the CLI and web entry points).       *)
(*                                                                         *)
(* Text is a sequence of one-character strings.  A composed document (a    *)
(* prompt, a summary, a report) is a sequence whose elements are either    *)
(* the characters of an embedded text or a multi-character string that     *)
(* stands for one fixed chunk of the f-string template around it.          *)
(***************************************************************************)
EXTENDS Integers, Sequences, FiniteSets, TLC

(***************************************************************************)
(* Bounds of the model.                                                    *)
(***************************************************************************)
\* A comment handed to the classifier is built from at most this many fragments.
MaxPieces == 2

(***************************************************************************)
(* Text helpers.                                                           *)
(***************************************************************************)
Range(s) == { s[i] : i \in DOMAIN s }

\* str.lower() on the ASCII letters.
UpperToLower ==
    ("A" :> "a") @@ ("B" :> "b") @@ ("C" :> "c") @@ ("D" :> "d") @@ ("E" :> "e") @@ ("F" :> "f") @@ ("G" :> "g") @@ ("H" :> "h") @@ ("I" :> "i") @@ ("J" :> "j") @@ ("K" :> "k") @@ ("L" :> "l") @@ ("M" :> "m") @@ ("N" :> "n") @@ ("O" :> "o") @@ ("P" :> "p") @@ ("Q" :> "q") @@ ("R" :> "r") @@ ("S" :> "s") @@ ("T" :> "t") @@ ("U" :> "u") @@ ("V" :> "v") @@ ("W" :> "w") @@ ("X" :> "x") @@ ("Y" :> "y") @@ ("Z" :> "z")

lower_char(c) == IF c \in DOMAIN UpperToLower THEN UpperToLower[c] ELSE c

lower(text) == [ i \in DOMAIN text |-> lower_char(text[i]) ]

\* Python's `needle in haystack` on strings: a contiguous occurrence.
str_contains(needle, haystack) ==
    \E i \in 1..(Len(haystack) - Len(needle) + 1) :
        SubSeq(haystack, i, i + Len(needle) - 1) = needle

(***************************************************************************)
(* class CommentSeverity(Enum)                                             *)
(***************************************************************************)
GENTLE == "GENTLE"
MODERATE == "MODERATE"
HARSH == "HARSH"
CRITICAL == "CRITICAL"

CommentSeverity == { GENTLE, MODERATE, HARSH, CRITICAL }

(***************************************************************************)
(* self.severity_keywords: a dict, iterated in insertion order.            *)
(***************************************************************************)
KeywordsCritical ==
    << <<"t","e","r","r","i","b","l","e">>,
       <<"a","w","f","u","l">>,
       <<"h","o","r","r","i","b","l","e">>,
       <<"s","t","u","p","i","d">>,
       <<"i","d","i","o","t","i","c">>,
       <<"g","a","r","b","a","g","e">> >>
KeywordsHarsh ==
    << <<"b","a","d">>,
       <<"w","r","o","n","g">>,
       <<"i","n","e","f","f","i","c","i","e","n","t">>,
       <<"p","o","o","r">>,
       <<"s","l","o","p","p","y">>,
       <<"m","e","s","s","y">> >>
KeywordsModerate ==
    << <<"s","h","o","u","l","d">>,
       <<"c","o","u","l","d">>,
       <<"c","o","n","s","i","d","e","r">>,
       <<"m","i","g","h","t"," ","w","a","n","t"," ","t","o">>,
       <<"t","r","y">> >>
KeywordsGentle ==
    << <<"p","e","r","h","a","p","s">>,
       <<"m","a","y","b","e">>,
       <<"s","u","g","g","e","s","t","i","o","n">>,
       <<"a","l","t","e","r","n","a","t","i","v","e","l","y">> >>

severity_keywords ==
    << [ severity |-> CRITICAL, keywords |-> KeywordsCritical ],
       [ severity |-> HARSH,    keywords |-> KeywordsHarsh ],
       [ severity |-> MODERATE, keywords |-> KeywordsModerate ],
       [ severity |-> GENTLE,   keywords |-> KeywordsGentle ] >>

\* The table with its entries in the opposite order (mildest first).
severity_keywords_reversed ==
    [ i \in 1..4 |-> severity_keywords[5 - i] ]

\* any(keyword in comment_lower for keyword in keywords)
any_keyword_in(keywords, comment_lower) ==
    \E n \in DOMAIN keywords : str_contains(keywords[n], comment_lower)

\* The for loop of analyze_comment_severity from table entry i on: the first
\* entry with a keyword in the comment decides; falling off the end is GENTLE.
RECURSIVE severity_loop(_, _, _)
severity_loop(table, comment_lower, i) ==
    IF i > Len(table) THEN GENTLE
    ELSE IF any_keyword_in(table[i].keywords, comment_lower)
         THEN table[i].severity
         ELSE severity_loop(table, comment_lower, i + 1)

\* The classifier falling through to MODERATE instead of GENTLE.
analyze_comment_severity_default_moderate(comment) ==
    LET s == severity_loop(severity_keywords, lower(comment), 1)
    IN  IF \E i \in 1..4 : any_keyword_in(severity_keywords[i].keywords, lower(comment))
        THEN s ELSE MODERATE

\* The classifier iterating the table mildest first.
analyze_comment_severity_mildest_first(comment) ==
    severity_loop(severity_keywords_reversed, lower(comment), 1)

\* The classifier testing the keyword against the whole comment (==) instead
\* of looking for it inside the comment (in).
analyze_comment_severity_whole_text(comment) ==
    LET comment_lower == lower(comment)
        hits == { i \in DOMAIN severity_keywords :
                    \E n \in DOMAIN severity_keywords[i].keywords :
                        severity_keywords[i].keywords[n] = comment_lower }
    IN  IF hits = {} THEN GENTLE
        ELSE severity_keywords[CHOOSE i \in hits : \A j \in hits : i <= j].severity

analyze_comment_severity(comment) ==
    LET comment_lower == lower(comment)
    IN  severity_loop(severity_keywords, comment_lower, 1)

(***************************************************************************)
(* Inputs of the classifier: texts built from fragments that hold keywords *)
(* of every set, upper-case spellings, halves of a keyword that only       *)
(* concatenation joins ("b" + "ad", "poe" + "try"), and neutral text.      *)
(***************************************************************************)
Fragments ==
    { <<"T","h","i","s"," ","i","s"," ">>,
      <<"T","e","r","r","i","b","l","e">>,
      <<"a","w","f","u","l">>,
      <<"B","A","D">>,
      <<"b">>,
      <<"a","d">>,
      <<"s","h","o","u","l","d">>,
      <<"p","o","e">>,
      <<"t","r","y">>,
      <<"m","a","y","b","e">>,
      <<" ","c","o","d","e",".">>,
      <<"r","e","n","a","m","e"," ","u">> }

RECURSIVE TextsOf(_)
TextsOf(n) ==
    IF n = 0 THEN { <<>> }
    ELSE LET shorter == TextsOf(n - 1)
         IN  shorter \cup { t \o f : t \in shorter, f \in Fragments }

CommentTexts == TextsOf(MaxPieces)

(***************************************************************************)
(* re.search: a regular expression is a tree; ends_of gives the positions  *)
(* (0..Len) at which a match that starts at a position of `starts` can     *)
(* end.  re.MULTILINE changes only ^ and $, which no pattern uses; "."     *)
(* does not match a newline, \s does.                                      *)
(***************************************************************************)
LowerLetters == { "a", "b", "c", "d", "e", "f", "g", "h", "i", "j", "k", "l", "m", "n", "o", "p", "q", "r", "s", "t", "u", "v", "w", "x", "y", "z" }

UpperLetters == { "A", "B", "C", "D", "E", "F", "G", "H", "I", "J", "K", "L", "M", "N", "O", "P", "Q", "R", "S", "T", "U", "V", "W", "X", "Y", "Z" }

Digits == { "0", "1", "2", "3", "4", "5", "6", "7", "8", "9" }

\* \w
WordChars == LowerLetters \cup UpperLetters \cup Digits \cup { "_" }

\* \s
Whitespace == { " ", "\t", "\n", "\r", "\f" }

Lit(s) == [ t |-> "lit", s |-> s ]
Set(cs) == [ t |-> "set", cs |-> cs ]
Dot == [ t |-> "dot" ]
WordBoundary == [ t |-> "wb" ]
Cat(rs) == [ t |-> "cat", rs |-> rs ]
Alt(rs) == [ t |-> "alt", rs |-> rs ]
Plus(r) == [ t |-> "plus", r |-> r ]
Star(r) == [ t |-> "star", r |-> r ]
NotFollowedBy(r) == [ t |-> "nla", r |-> r ]

\* Whether the character before position p + 1 (p = 0: none) is a word character.
word_before(text, p) == p >= 1 /\ p <= Len(text) /\ text[p] \in WordChars

RECURSIVE ends_of(_, _, _)
RECURSIVE cat_ends(_, _, _, _)
RECURSIVE closure(_, _, _)

ends_of(r, text, starts) ==
    CASE r.t = "lit" ->
            { p + Len(r.s) : p \in { q \in starts : /\ q + Len(r.s) <= Len(text)
                                                    /\ SubSeq(text, q + 1, q + Len(r.s)) = r.s } }
      [] r.t = "set" ->
            { p + 1 : p \in { q \in starts : q < Len(text) /\ text[q + 1] \in r.cs } }
      [] r.t = "dot" ->
            { p + 1 : p \in { q \in starts : q < Len(text) /\ text[q + 1] # "\n" } }
      [] r.t = "wb" ->
            { p \in starts : word_before(text, p) # word_before(text, p + 1) }
      [] r.t = "cat" -> cat_ends(r.rs, text, starts, 1)
      [] r.t = "alt" -> UNION { ends_of(r.rs[i], text, starts) : i \in DOMAIN r.rs }
      [] r.t = "plus" -> closure(r.r, text, ends_of(r.r, text, starts))
      [] r.t = "star" -> starts \cup closure(r.r, text, ends_of(r.r, text, starts))
      [] r.t = "nla" -> { p \in starts : ends_of(r.r, text, { p }) = {} }

cat_ends(rs, text, starts, i) ==
    IF i > Len(rs) THEN starts
    ELSE cat_ends(rs, text, ends_of(rs[i], text, starts), i + 1)

closure(r, text, reached) ==
    LET more == reached \cup ends_of(r, text, reached)
    IN  IF more = reached THEN reached ELSE closure(r, text, more)

\* bool(re.search(regex, code, re.MULTILINE))
re_search(regex, code) == ends_of(regex, code, 0..Len(code)) # {}

(***************************************************************************)
(* self.code_patterns: a dict, iterated in insertion order.                *)
(***************************************************************************)
\* r'for .+ in .+:\s*if .+:\s*.+\.append'
RegexListComprehension ==
    Cat(<< Lit(<<"f","o","r"," ">>), Plus(Dot), Lit(<<" ","i","n"," ">>), Plus(Dot), Lit(<<":">>),
           Star(Set(Whitespace)), Lit(<<"i","f"," ">>), Plus(Dot), Lit(<<":">>),
           Star(Set(Whitespace)), Plus(Dot), Lit(<<".","a","p","p","e","n","d">>) >>)

\* The test written for identity comparisons: r'is True|is False'
RegexBooleanRedundancy_identity ==
    Alt(<< Lit(<<"i","s"," ","T","r","u","e">>), Lit(<<"i","s"," ","F","a","l","s","e">>) >>)

\* r'== True|== False'
RegexBooleanRedundancy ==
    Alt(<< Lit(<<"=","="," ","T","r","u","e">>), Lit(<<"=","="," ","F","a","l","s","e">>) >>)

\* r'\b[a-z]\b(?!\s*=)'
RegexSingleLetterVars ==
    Cat(<< WordBoundary, Set(LowerLetters), WordBoundary,
           NotFollowedBy(Cat(<< Star(Set(Whitespace)), Lit(<<"=">>) >>)) >>)

\* r'\b\d{2,}\b'
RegexMagicNumbers ==
    Cat(<< WordBoundary, Set(Digits), Plus(Set(Digits)), WordBoundary >>)

\* r'for .+ in .+:\s*for .+ in'
RegexNestedLoops ==
    Cat(<< Lit(<<"f","o","r"," ">>), Plus(Dot), Lit(<<" ","i","n"," ">>), Plus(Dot), Lit(<<":">>),
           Star(Set(Whitespace)), Lit(<<"f","o","r"," ">>), Plus(Dot), Lit(<<" ","i","n">>) >>)

code_patterns ==
    << [ name |-> "list_comprehension", regex |-> RegexListComprehension ],
       [ name |-> "boolean_redundancy", regex |-> RegexBooleanRedundancy ],
       [ name |-> "single_letter_vars", regex |-> RegexSingleLetterVars ],
       [ name |-> "magic_numbers",      regex |-> RegexMagicNumbers ],
       [ name |-> "nested_loops",       regex |-> RegexNestedLoops ] >>

PatternNames == { code_patterns[i].name : i \in DOMAIN code_patterns }

\* for pattern_name, regex in table.items():
\*     patterns_found[pattern_name] = bool(re.search(regex, code, re.MULTILINE))
detect_code_patterns_in(table, code) ==
    [ i \in DOMAIN table |->
        [ name |-> table[i].name,
          found |-> re_search(table[i].regex, code) ] ]

\* patterns_found, a dict in the order of code_patterns: name and flag.
detect_code_patterns(code) == detect_code_patterns_in(code_patterns, code)

(***************************************************************************)
(* Code snippets handed to the reviewer.                                   *)
(***************************************************************************)
\* 'x = 1'
SnippetAssign ==
    <<"x"," ","="," ","1">>

\* 'def f(u):\n  if u == True:\n    return 1'
SnippetBoolean ==
    <<"d","e","f"," ","f","(","u",")",":","\n"," "," ","i","f"," ","u"," ","=","="," ","T","r","u","e",":","\n"," "," "," "," ","r","e","t","u","r","n"," ","1">>

\* 'for i in a:\n for j in b:\n  n = 10'
SnippetNested ==
    <<"f","o","r"," ","i"," ","i","n"," ","a",":","\n"," ","f","o","r"," ","j"," ","i","n"," ","b",":","\n"," "," ","n"," ","="," ","1","0">>

\* 'for u in us:\n if u.ok:\n  rs.append(u)'
SnippetFilter ==
    <<"f","o","r"," ","u"," ","i","n"," ","u","s",":","\n"," ","i","f"," ","u",".","o","k",":","\n"," "," ","r","s",".","a","p","p","e","n","d","(","u",")">>

Snippets == { SnippetAssign, SnippetBoolean, SnippetNested, SnippetFilter }

(***************************************************************************)
(* get_contextual_tone: a dict lookup with a default.  The phrases are     *)
(* fixed template text, one chunk each.                                    *)
(***************************************************************************)
ToneCritical == "I understand this feedback might have felt harsh. Let's reframe it constructively"
ToneHarsh == "This is actually a great learning opportunity"
ToneModerate == "Good observation! Here's how we can build on it"
ToneGentle == "Nice suggestion! Let's explore this further"
ToneDefault == "Let's look at this feedback"

\* The table with one phrase serving two severities.
tone_map_shared_phrase ==
    (CRITICAL :> ToneCritical) @@ (HARSH :> ToneHarsh) @@
    (MODERATE :> ToneHarsh) @@ (GENTLE :> ToneGentle)

tone_map ==
    (CRITICAL :> ToneCritical) @@ (HARSH :> ToneHarsh) @@
    (MODERATE :> ToneModerate) @@ (GENTLE :> ToneGentle)

\* Values no dict can look up: a list, written "[]".  dict.get raises
\* TypeError on them.
Unhashable == { "[]" }
TypeError == "TypeError"
KeyError == "KeyError"

\* The lookup written tone_map[severity]: KeyError on a missing key.
get_contextual_tone_strict(severity) ==
    IF severity \in Unhashable THEN TypeError
    ELSE IF severity \in DOMAIN tone_map THEN tone_map[severity] ELSE KeyError

\* tone_map.get(severity, "Let's look at this feedback")
get_contextual_tone(severity) ==
    IF severity \in Unhashable THEN TypeError
    ELSE IF severity \in DOMAIN tone_map THEN tone_map[severity] ELSE ToneDefault

(***************************************************************************)
(* The three reviewer classes.                                             *)
(***************************************************************************)
Ultimate == "ultimate"
Advanced == "advanced"
Gemini == "gemini"

Variants == { Ultimate, Advanced, Gemini }

(***************************************************************************)
(* class AIEngine(Enum)                                                    *)
(***************************************************************************)
EngineGemini == "GEMINI"
EngineOllama == "OLLAMA"
EngineAuto == "AUTO"

AIEngine == { EngineGemini, EngineOllama, EngineAuto }

(***************************************************************************)
(* create_summary_analysis.                                                *)
(***************************************************************************)
\* The count taking HARSH comments only.
total_severity_harsh_only(comments) ==
    Cardinality({ i \in DOMAIN comments : analyze_comment_severity(comments[i]) = HARSH })

\* sum(1 for comment in comments if analyze_comment_severity(comment) in [HARSH, CRITICAL])
total_severity(comments) ==
    Cardinality({ i \in DOMAIN comments :
                    analyze_comment_severity(comments[i]) \in { HARSH, CRITICAL } })

\* The threshold test written with >= in place of >.
encouragement_level_at_least(comments) ==
    IF 5 * total_severity(comments) >= 3 * Len(comments) THEN "extra_high"
    ELSE IF total_severity(comments) > 0 THEN "high"
    ELSE "standard"

\* The threshold test written against the whole length (1.0 in place of 0.6).
encouragement_level_above_all(comments) ==
    IF total_severity(comments) > Len(comments) THEN "extra_high"
    ELSE IF total_severity(comments) > 0 THEN "high"
    ELSE "standard"

\* if total_severity > len(comments) * 0.6: ... elif total_severity > 0: ... else: ...
\* The product is a double.  0.6 is stored as 0.6 - 2^-55.3; for len a multiple
\* of 5 the product rounds to the integer 0.6 * len exactly, and for any other
\* len it lies strictly between two integers, as 0.6 * len does; so for integers
\* h and len the test h > len * 0.6 is the test 5 * h > 3 * len.
encouragement_level(comments) ==
    IF 5 * total_severity(comments) > 3 * Len(comments) THEN "extra_high"
    ELSE IF total_severity(comments) > 0 THEN "high"
    ELSE "standard"

EncouragementLevels == { "extra_high", "high", "standard" }

\* summary_prompts of the ultimate and gemini reviewers.
summary_prompts ==
    [ extra_high |-> "This developer faced some tough feedback but shows solid problem-solving instincts. The logical thinking is there - now it's about refining the expression.",
      high       |-> "This developer is on a great learning trajectory with excellent fundamentals. These optimizations will level up their Python skills significantly.",
      standard   |-> "This developer writes clean, logical code and is ready for advanced optimizations. Excellent foundation to build upon!" ]

\* summary_prompts of the advanced reviewer.
summary_prompts_advanced ==
    [ extra_high |-> "This developer faced some tough feedback but shows solid problem-solving instincts. Focus on the growth journey and celebrate their logical thinking.",
      high       |-> "This developer is on a great learning path with some excellent fundamentals. The improvements suggested will level up their skills significantly.",
      standard   |-> "This developer writes clean, logical code and is ready for some advanced optimizations. Great foundation to build upon!" ]

summary_prompts_of(variant) ==
    IF variant = Advanced THEN summary_prompts_advanced ELSE summary_prompts

\* engine_info = "Google Gemini" if self.engine == AIEngine.GEMINI else "Local Llama 3.1"
engine_info(engine) ==
    IF engine = EngineGemini THEN "Google Gemini" ELSE "Local Llama 3.1"

\* The summary document: heading, the paragraph of the level, and the fixed
\* rest, which names the engine in the ultimate reviewer only.
create_summary_analysis(variant, engine, code_snippet, comments) ==
    LET level == encouragement_level(comments)
    IN  << "\n## Overall Growth Summary & Next Steps\n\n",
           summary_prompts_of(variant)[level] >>
        \o ( IF variant = Ultimate
             THEN << "\n\n**Key Learning Themes:** ... | Powered by ",
                     engine_info(engine),
                     "*  \n*Built for developers, by developers*\n" >>
             ELSE IF variant = Gemini
             THEN << "\n\n**Key Learning Themes:** ... *Generated by Empathetic Code Reviewer v2.0 | Built for developers, by developers*\n" >>
             ELSE << "\n\n**Key Themes from This Review:** ... on the path to mastery!*\n" >> )

(***************************************************************************)
(* Formatting helpers of the f-strings.                                    *)
(***************************************************************************)
DigitChars == << "0", "1", "2", "3", "4", "5", "6", "7", "8", "9" >>

\* str(n) for n >= 0: the decimal digits.
RECURSIVE str_of(_)
str_of(n) ==
    IF n < 10 THEN << DigitChars[n + 1] >>
    ELSE str_of(n \div 10) \o << DigitChars[(n % 10) + 1] >>

\* sep.join(parts) for a sequence of documents.
RECURSIVE join_from(_, _, _)
join_from(sep, parts, i) ==
    IF i > Len(parts) THEN <<>>
    ELSE IF i = Len(parts) THEN parts[i]
    ELSE parts[i] \o sep \o join_from(sep, parts, i + 1)

join(sep, parts) == join_from(sep, parts, 1)

\* severity.value
severity_value(severity) ==
    CASE severity = GENTLE -> "gentle"
      [] severity = MODERATE -> "moderate"
      [] severity = HARSH -> "harsh"
      [] severity = CRITICAL -> "critical"

(***************************************************************************)
(* create_master_prompt.  The three classes share the body and differ in   *)
(* the fixed text around it.  ''' stands for the Markdown code fence,     *)
(* three backquotes, which a TLA+ string cannot hold.                      *)
(***************************************************************************)
\* The comprehension with the test inverted.
active_patterns_inverted(patterns) ==
    LET miss(p) == ~ p.found
        kept == SelectSeq(patterns, miss)
    IN  [ i \in DOMAIN kept |-> kept[i].name ]

\* [k for k, v in patterns.items() if v]
active_patterns(patterns) ==
    LET hit(p) == p.found
        kept == SelectSeq(patterns, hit)
    IN  [ i \in DOMAIN kept |-> kept[i].name ]

NoPatternsMarker == "Clean basic structure"

\* ', '.join(active_patterns) if active_patterns else 'Clean basic structure'
patterns_text(active) ==
    IF active # <<>>
    THEN join(<< ", " >>, [ i \in DOMAIN active |-> << active[i] >> ])
    ELSE << NoPatternsMarker >>

\* The line numbered from the enumerate index itself, 0-based.
severity_line_zero_based(i, comment) ==
    LET severity == analyze_comment_severity(comment)
        tone == get_contextual_tone(severity)
    IN  << "Comment " >> \o str_of(i - 1) \o << ": ", severity_value(severity), " severity - ", tone >>

\* f"Comment {i+1}: {severity.value} severity - {tone}"; i here is i+1 there.
severity_line(i, comment) ==
    LET severity == analyze_comment_severity(comment)
        tone == get_contextual_tone(severity)
    IN  << "Comment " >> \o str_of(i) \o << ": ", severity_value(severity), " severity - ", tone >>

\* f'{i+1}. "{comment}"'; i here is i+1 there.
comment_line(i, comment) ==
    str_of(i) \o << ". \"" >> \o comment \o << "\"" >>

SeverityHeading == "\n\n**COMMENT SEVERITY ANALYSIS:**\n"
CommentsHeading == "\n\n**ORIGINAL COMMENTS TO TRANSFORM:**\n"

prompt_head(variant) ==
    IF variant = Advanced
    THEN "You are a world-class senior software engineer and mentor ... **CODE ANALYSIS:**\n'''python\n"
    ELSE "You are a world-class senior software engineer and mentor ... **MISSION**: ... **CODE UNDER REVIEW:**\n'''python\n"

patterns_heading(variant) ==
    IF variant = Advanced
    THEN "\n'''\n\n**DETECTED PATTERNS:** "
    ELSE "\n'''\n\n**DETECTED CODE PATTERNS:** "

\* The template after the comment list: the ultimate reviewer ends with the
\* number of comments, the advanced one quotes comments[0] (or PLACEHOLDER).
prompt_tail(variant, comments) ==
    CASE variant = Ultimate ->
            << "\n\n**REQUIRED OUTPUT FORMAT:** ... Generate the complete analysis for ALL " >>
            \o str_of(Len(comments)) \o << " comments now:" >>
      [] variant = Gemini ->
            << "\n\n**REQUIRED OUTPUT FORMAT:** ... Generate the complete analysis for ALL " >>
            \o str_of(Len(comments)) \o << " comments now:" >>
      [] variant = Advanced ->
            << "\n\n**YOUR MISSION:** ... ### Analysis of Comment: \"" >>
            \o ( IF comments # <<>> THEN comments[1] ELSE << "PLACEHOLDER" >> )
            \o << "\"\n\n**Positive Rephrasing:** ... Create the analysis for ALL comments now:" >>

create_master_prompt(variant, code_snippet, comments) ==
    LET patterns == detect_code_patterns(code_snippet)
        active == active_patterns(patterns)
        severity_analysis == [ i \in DOMAIN comments |-> severity_line(i, comments[i]) ]
        comments_list == join(<< "\n" >>, [ i \in DOMAIN comments |-> comment_line(i, comments[i]) ])
        severity_list == join(<< "\n" >>, severity_analysis)
    IN  << prompt_head(variant) >> \o code_snippet
        \o << patterns_heading(variant) >> \o patterns_text(active)
        \o << SeverityHeading >> \o severity_list
        \o << CommentsHeading >> \o comments_list
        \o prompt_tail(variant, comments)

(***************************************************************************)
(* Reviewer construction.  None is Python's None; a credential is truthy   *)
(* when it is neither None nor the empty string.  SystemExit is what       *)
(* sys.exit(1) raises.                                                     *)
(***************************************************************************)
None == "None"
SystemExit == "SystemExit"

truthy(value) == value # None /\ value # ""

\* api_key or os.getenv('GEMINI_API_KEY')
key_or_env(api_key, env) ==
    IF truthy(api_key) THEN api_key ELSE env.GEMINI_API_KEY

\* requests.get('http://localhost:11434/api/version').status_code == 200,
\* False on any exception.
_check_ollama(env) == env.ollama_up

\* _determine_engine with the automatic option trying the local service first.
_determine_engine_local_first(requested, api_key, env) ==
    IF requested = EngineGemini
    THEN IF ~ env.GEMINI_AVAILABLE THEN SystemExit ELSE EngineGemini
    ELSE IF requested = EngineOllama
    THEN IF ~ _check_ollama(env) THEN SystemExit ELSE EngineOllama
    ELSE IF _check_ollama(env) THEN EngineOllama
         ELSE IF env.GEMINI_AVAILABLE /\ truthy(key_or_env(api_key, env))
              THEN EngineGemini ELSE SystemExit

\* _determine_engine with the automatic option handing AUTO back when no
\* engine is available (the final sys.exit left out).
_determine_engine_keeps_auto(requested, api_key, env) ==
    IF requested = EngineGemini
    THEN IF ~ env.GEMINI_AVAILABLE THEN SystemExit ELSE EngineGemini
    ELSE IF requested = EngineOllama
    THEN IF ~ _check_ollama(env) THEN SystemExit ELSE EngineOllama
    ELSE IF env.GEMINI_AVAILABLE /\ truthy(key_or_env(api_key, env))
         THEN EngineGemini
         ELSE IF _check_ollama(env) THEN EngineOllama ELSE EngineAuto

_determine_engine(requested, api_key, env) ==
    IF requested = EngineGemini
    THEN IF ~ env.GEMINI_AVAILABLE THEN SystemExit ELSE EngineGemini
    ELSE IF requested = EngineOllama
    THEN IF ~ _check_ollama(env) THEN SystemExit ELSE EngineOllama
    ELSE IF env.GEMINI_AVAILABLE /\ truthy(key_or_env(api_key, env))
         THEN EngineGemini
         ELSE IF _check_ollama(env) THEN EngineOllama ELSE SystemExit

\* The reviewer's fields after a construction that did not exit.
Reviewer(engine, api_key, configured) ==
    [ exited |-> FALSE, engine |-> engine, api_key |-> api_key, configured |-> configured ]

\* A construction ended by sys.exit(1).
Exited == [ exited |-> TRUE, engine |-> None, api_key |-> None, configured |-> None ]

\* _init_gemini without the test of the key.
_init_gemini_unchecked(key) == key

\* _init_gemini: exits without a key, else hands the key to genai.configure;
\* the value is the key configured.
_init_gemini(key) == IF ~ truthy(key) THEN SystemExit ELSE key

\* _init_ollama: exits when the service does not answer; configures nothing.
_init_ollama(env) == IF ~ _check_ollama(env) THEN SystemExit ELSE None

\* if self.engine == AIEngine.GEMINI: self._init_gemini()
\* elif self.engine == AIEngine.OLLAMA: self._init_ollama()
init_engine(engine, key, env) ==
    IF engine = EngineGemini THEN _init_gemini(key)
    ELSE IF engine = EngineOllama THEN _init_ollama(env)
    ELSE None

\* UltimateEmpathethicReviewer.__init__ with _init_gemini and _init_ollama;
\* configured is the key handed to genai.configure.
ultimate_init(requested, api_key, env) ==
    LET engine == _determine_engine(requested, api_key, env)
        key == key_or_env(api_key, env)
        configured == init_engine(engine, key, env)
    IN  IF engine = SystemExit \/ configured = SystemExit THEN Exited
        ELSE Reviewer(engine, key, configured)

\* GeminiEmpathethicReviewer.__init__
gemini_init(api_key, env) ==
    LET key == key_or_env(api_key, env)
    IN  IF ~ truthy(key) THEN Exited ELSE Reviewer(EngineGemini, key, key)

\* AdvancedEmpathethicReviewer.__init__: no engine to choose, always Ollama.
advanced_init == Reviewer(EngineOllama, None, None)

construct(variant, requested, api_key, env) ==
    CASE variant = Ultimate -> ultimate_init(requested, api_key, env)
      [] variant = Gemini -> gemini_init(api_key, env)
      [] variant = Advanced -> advanced_init

(***************************************************************************)
(* The completion call.  What the backend does is the environment's        *)
(* choice: a reply is a text, an HTTP status other than 200, an exception  *)
(* of the requests library, or any other exception (a missing 'response'   *)
(* key, a blocked Gemini answer).  A call returns a value or raises.       *)
(***************************************************************************)
Returned(value) == [ raised |-> FALSE, value |-> value ]
Raised == [ raised |-> TRUE, value |-> <<>> ]

ReplyText(text) ==
    [ kind |-> "text", status_code |-> 200, text |-> text, message |-> <<>> ]
ReplyStatus(status_code) ==
    [ kind |-> "status", status_code |-> status_code, text |-> <<>>, message |-> <<>> ]
ReplyRequestException(message) ==
    [ kind |-> "request_exception", status_code |-> 0, text |-> <<>>, message |-> message ]
ReplyException(message) ==
    [ kind |-> "exception", status_code |-> 0, text |-> <<>>, message |-> message ]

\* _call_gemini with the try block left out: the exception reaches the caller.
_call_gemini_uncaught(reply) ==
    IF reply.kind = "text" THEN Returned(reply.text) ELSE Raised

\* _call_gemini and GeminiEmpathethicReviewer.call_gemini
_call_gemini(reply) ==
    IF reply.kind = "text" THEN Returned(reply.text)
    ELSE Returned(<< "Gemini API Error: " >> \o reply.message)

\* UltimateEmpathethicReviewer._call_ollama
_call_ollama(reply) ==
    CASE reply.kind = "text" -> Returned(reply.text)
      [] reply.kind = "status" ->
            Returned(<< "Ollama API Error: " >> \o str_of(reply.status_code))
      [] OTHER -> Returned(<< "Ollama Connection Error: " >> \o reply.message)

\* AdvancedEmpathethicReviewer.call_ollama
call_ollama(reply) ==
    CASE reply.kind = "text" -> Returned(reply.text)
      [] reply.kind = "status" ->
            Returned(<< "API Error: " >> \o str_of(reply.status_code))
      [] reply.kind = "request_exception" ->
            Returned(<< "Connection error: " >> \o reply.message)
      [] OTHER -> Returned(<< "Unexpected error: " >> \o reply.message)

\* UltimateEmpathethicReviewer.call_ai_engine
call_ai_engine(engine, reply) ==
    IF engine = EngineGemini THEN _call_gemini(reply)
    ELSE IF engine = EngineOllama THEN _call_ollama(reply)
    ELSE Returned(<< "Error: No AI engine configured" >>)

\* The completion call of each class's process_review.
complete(variant, engine, reply) ==
    CASE variant = Ultimate -> call_ai_engine(engine, reply)
      [] variant = Gemini -> _call_gemini(reply)
      [] variant = Advanced -> call_ollama(reply)

(***************************************************************************)
(* The report of process_review.                                           *)
(***************************************************************************)
report_head(variant) ==
    CASE variant = Ultimate -> "# Ultimate Empathetic Code Review Report ... ## Original Code Under Review\n'''python\n"
      [] variant = Gemini -> "# Empathetic Code Review Report ... through AI-powered mentorship* ... ## Original Code Under Review\n'''python\n"
      [] variant = Advanced -> "# Empathetic Code Review Report ... ## Original Code Under Review\n'''python\n"

report_middle(variant) ==
    IF variant = Advanced
    THEN "\n'''\n\n"
    ELSE "\n'''\n\n## Transformed Feedback Analysis\n\n"

report_tail(variant) ==
    CASE variant = Ultimate -> "\n\n---\n**Generated by Ultimate Empathetic Code Reviewer v3.0** ...\n"
      [] variant = Gemini -> "\n\n---\n**Generated by Empathetic Code Reviewer v2.0** ...\n"
      [] variant = Advanced -> "\n\n---\n**Generated by Advanced Empathetic Code Reviewer v2.0** ...\n"

\* str.strip(): the text without its leading and trailing whitespace.
RECURSIVE strip(_)
strip(text) ==
    IF text = <<>> THEN text
    ELSE IF Head(text) \in Whitespace THEN strip(Tail(text))
    ELSE IF text[Len(text)] \in Whitespace THEN strip(SubSeq(text, 1, Len(text) - 1))
    ELSE text

\* The report with the collaborator's text stripped before it is embedded.
build_report_stripped(variant, code_snippet, ai_response, summary) ==
    << report_head(variant) >> \o code_snippet
    \o << report_middle(variant) >> \o strip(ai_response)
    \o << "\n\n" >> \o summary
    \o << report_tail(variant) >>

\* report = f"""...{code_snippet}...{ai_response}\n\n{summary}\n\n---..."""
build_report(variant, code_snippet, ai_response, summary) ==
    << report_head(variant) >> \o code_snippet
    \o << report_middle(variant) >> \o ai_response
    \o << "\n\n" >> \o summary
    \o << report_tail(variant) >>

(***************************************************************************)
(* The entry points: main() of each class's script, and the web handler    *)
(* review_code, which serves the ultimate reviewer.                        *)
(***************************************************************************)
Cli == "cli"
Web == "web"

\* for key in required_keys: if key not in input_data: raise ValueError
cli_input_ok(input_data) ==
    input_data.has_code_snippet /\ input_data.has_review_comments

\* data.get('code_snippet', '') and data.get('review_comments', [])
web_code_snippet(data) == IF data.has_code_snippet THEN data.code_snippet ELSE <<>>
web_comments(data) == IF data.has_review_comments THEN data.review_comments ELSE <<>>

\* The test on the snippet alone.
web_input_ok_code_only(data) == web_code_snippet(data) # <<>>

\* not (not code_snippet or not comments)
web_input_ok(data) ==
    web_code_snippet(data) # <<>> /\ web_comments(data) # <<>>

input_ok(entry, input_data) ==
    IF entry = Web THEN web_input_ok(input_data) ELSE cli_input_ok(input_data)

\* How a rejected input ends: the ValueError reaches main's except Exception
\* (exit status 1); the web handler returns status 400.
rejected(entry) == IF entry = Web THEN "http_400" ELSE "exit_1"

\* How an exception (a subclass of Exception) ends the request.
on_exception(entry) == IF entry = Web THEN "http_500" ELSE "exit_1"

\* How SystemExit ends the request: no except clause catches it; the script
\* exits with status 1, the web handler ends without building a response.
on_system_exit(entry) == IF entry = Web THEN "system_exit" ELSE "exit_1"

\* How a finished report is delivered: written to the report file, or
\* returned as JSON with status 200.
delivered(entry) == IF entry = Web THEN "http_200" ELSE "report_written"

\* The position after the completion call returned, with the call repeated
\* whenever it returned an error text.
after_call_retry_on_error(returned) ==
    IF returned # <<>> /\ returned[1] \in { "Gemini API Error: ", "Ollama API Error: ",
                                              "Ollama Connection Error: ", "API Error: ",
                                              "Connection error: ", "Unexpected error: " }
    THEN "prompted" ELSE "answered"

\* The position after the completion call returned: process_review goes on
\* to the summary, whatever was returned.
after_call(returned) == "answered"

(***************************************************************************)
(* Inputs of the summary: comment lists over one text of each severity.    *)
(***************************************************************************)
\* The longest comment list handed to create_summary_analysis on its own.
MaxComments == 5

SummaryComments ==
    { <<"a","w","f","u","l">>,
      <<"B","A","D">>,
      <<"s","h","o","u","l","d">>,
      <<"r","e","n","a","m","e"," ","u">> }

RECURSIVE ListsOver(_, _)
ListsOver(pool, n) ==
    IF n = 0 THEN { <<>> }
    ELSE LET shorter == ListsOver(pool, n - 1)
         IN  shorter \cup { Append(l, c) : l \in { x \in shorter : Len(x) = n - 1 }, c \in pool }

(***************************************************************************)
(* Inputs of a request.                                                    *)
(***************************************************************************)
\* The longest comment list of a request.
MaxReviewComments == 2

\* "This is terrible code." and "maybe rename u"
ReviewCommentPool ==
    { <<"T","h","i","s"," ","i","s"," ","t","e","r","r","i","b","l","e"," ","c","o","d","e",".">>,
      <<"m","a","y","b","e"," ","r","e","n","a","m","e"," ","u">> }

\* The parsed JSON input: either key may be absent; the snippet may be ''.
InputData ==
    { [ has_code_snippet |-> hc, code_snippet |-> c,
        has_review_comments |-> hr, review_comments |-> l ] :
        hc \in BOOLEAN, hr \in BOOLEAN,
        c \in Snippets \cup { <<>> }, l \in ListsOver(ReviewCommentPool, MaxReviewComments) }

\* An absent key has no value: one representative.
WellFormed(input_data) ==
    /\ ~ input_data.has_code_snippet => input_data.code_snippet = <<>>
    /\ ~ input_data.has_review_comments => input_data.review_comments = <<>>

\* The process environment: whether google.generativeai imported, the
\* GEMINI_API_KEY variable, whether the local Ollama service answers.
Environments ==
    [ GEMINI_AVAILABLE : BOOLEAN, GEMINI_API_KEY : { None, "env-key" }, ollama_up : BOOLEAN ]

\* What the backend may do with a completion call.
Replies ==
    { ReplyText(<<"#","#","#"," ","o","k">>),
      ReplyText(<<"\n","f","i","n","e"," ","\n">>),
      ReplyStatus(500),
      ReplyRequestException(<<"t","i","m","e","d"," ","o","u","t">>),
      ReplyException(<<"'","r","e","s","p","o","n","s","e","'">>) }

\* The Gemini client raises or returns text; it reports no HTTP status.
RepliesOf(engine) ==
    IF engine = EngineGemini
    THEN { r \in Replies : r.kind \in { "text", "exception" } }
    ELSE Replies

(***************************************************************************)
(* State.                                                                  *)
(***************************************************************************)
VARIABLES
    fn,            \* the function applied on its own, "none" before the call
    args,          \* its arguments, a record
    ret,           \* what it returned, "unset" before the call
    entry,         \* the entry point of the request: Cli or Web
    variant,       \* the reviewer class the entry point uses
    input_data,    \* the parsed JSON input
    requested,     \* the engine option of the request
    api_key,       \* the api key option of the request, None when absent
    env,           \* the process environment
    pc,            \* the position of the request in its entry point
    reviewer,      \* the constructed reviewer's fields, NoReviewer before
    calls,         \* the completion calls made: prompt, reply, returned text
    master_prompt, \* process_review's locals, Unbound before they are assigned
    ai_response,
    summary,
    report,
    outcome,       \* how the request ended, "pending" before
    output,        \* the report written or sent back, Unbound when there is none
    genai_api_key, \* the key genai.configure stored for the whole process
    threads,       \* the requests the web server is handling, one record each
    tables,        \* one reviewer's severity_keywords and code_patterns fields
    caller_comments, \* the list of comments the caller of that reviewer owns
    history        \* the calls made on that reviewer: method, arguments, result

unitVars == << fn, args, ret >>
requestVars == << entry, variant, input_data, requested, api_key, env >>
reviewVars == << pc, reviewer, calls, master_prompt, ai_response, summary, report, outcome, output >>
serverVars == << genai_api_key, threads >>
sessionVars == << tables, caller_comments, history >>
vars == << fn, args, ret, entry, variant, input_data, requested, api_key, env,
           pc, reviewer, calls, master_prompt, ai_response, summary, report, outcome, output,
           genai_api_key, threads, tables, caller_comments, history >>

\* A local of process_review, or the output, that no value is bound to yet:
\* no text the code composes is this one chunk.
Unbound == << "<unbound>" >>

\* No reviewer is constructed yet.
NoReviewer == [ exited |-> FALSE, engine |-> None, api_key |-> None, configured |-> None ]

\* No request is under way.
NoRequest ==
    /\ entry = None /\ variant = None /\ input_data = None
    /\ requested = None /\ api_key = None /\ env = None
    /\ pc = "idle" /\ reviewer = NoReviewer /\ calls = <<>>
    /\ master_prompt = Unbound /\ ai_response = Unbound /\ summary = Unbound /\ report = Unbound
    /\ outcome = "pending" /\ output = Unbound

\* No function is applied on its own.
NoUnit == fn = "none" /\ args = None /\ ret = "unset"

\* No web server is running.
NoServer == genai_api_key = None /\ threads = <<>>

\* No reviewer is kept for a sequence of calls.
NoSession == tables = None /\ caller_comments = None /\ history = <<>>

(***************************************************************************)
(* analyze_comment_severity applied to one comment.                        *)
(***************************************************************************)
InitClassify ==
    /\ NoServer /\ NoSession
    /\ fn = "none"
    /\ args \in { [ comment |-> t ] : t \in CommentTexts }
    /\ ret = "unset"
    /\ NoRequest

CallAnalyzeCommentSeverity ==
    /\ fn = "none"
    /\ fn' = "analyze_comment_severity"
    /\ ret' = analyze_comment_severity(args.comment)
    /\ UNCHANGED << args, serverVars, sessionVars, requestVars, reviewVars >>

NextClassify == CallAnalyzeCommentSeverity

SpecClassify == InitClassify /\ [][NextClassify]_vars

(***************************************************************************)
(* create_summary_analysis applied to one review.                          *)
(***************************************************************************)
InitSummary ==
    /\ NoServer /\ NoSession
    /\ fn = "none"
    /\ args \in { [ variant |-> v, engine |-> e, code_snippet |-> SnippetAssign, comments |-> l ] :
                    v \in Variants, e \in { EngineGemini, EngineOllama },
                    l \in ListsOver(SummaryComments, MaxComments) }
    /\ ret = "unset"
    /\ NoRequest

CallCreateSummaryAnalysis ==
    /\ fn = "none"
    /\ fn' = "create_summary_analysis"
    /\ ret' = create_summary_analysis(args.variant, args.engine, args.code_snippet, args.comments)
    /\ UNCHANGED << args, serverVars, sessionVars, requestVars, reviewVars >>

NextSummary == CallCreateSummaryAnalysis

SpecSummary == InitSummary /\ [][NextSummary]_vars

(***************************************************************************)
(* One request, from the entry point to the report.                        *)
(***************************************************************************)
\* The web handler serves the ultimate reviewer; each class has a script.
\* The advanced script takes no options, the gemini script only a key, and
\* the gemini script runs only when google.generativeai imported.
Init ==
    /\ NoServer /\ NoSession
    /\ NoUnit
    /\ entry \in { Cli, Web }
    /\ variant \in Variants
    /\ entry = Web => variant = Ultimate
    /\ input_data \in { d \in InputData : WellFormed(d) }
    /\ requested \in AIEngine
    /\ api_key \in { None, "param-key" }
    /\ env \in Environments
    /\ variant # Ultimate => requested = EngineAuto
    /\ variant = Advanced => api_key = None /\ env = [ GEMINI_AVAILABLE |-> FALSE, GEMINI_API_KEY |-> None, ollama_up |-> TRUE ]
    /\ variant = Gemini => env.GEMINI_AVAILABLE /\ env.ollama_up
    /\ pc = "main"
    /\ reviewer = NoReviewer
    /\ calls = <<>>
    /\ master_prompt = Unbound /\ ai_response = Unbound /\ summary = Unbound /\ report = Unbound
    /\ outcome = "pending"
    /\ output = Unbound

\* The snippet and the comments the entry point hands on.
code_snippet_of(e, data) == IF e = Web THEN web_code_snippet(data) ELSE data.code_snippet
review_comments_of(e, data) == IF e = Web THEN web_comments(data) ELSE data.review_comments

\* main(): load and validate; review_code(): read the fields and validate.
ValidateInput ==
    /\ pc = "main"
    /\ IF input_ok(entry, input_data)
       THEN pc' = "validated" /\ UNCHANGED outcome
       ELSE pc' = "done" /\ outcome' = rejected(entry)
    /\ UNCHANGED << unitVars, serverVars, sessionVars, requestVars, reviewer, calls, master_prompt, ai_response,
                    summary, report, output >>

\* reviewer = UltimateEmpathethicReviewer(engine, api_key), and the other two.
ConstructReviewer ==
    /\ pc = "validated"
    /\ LET made == construct(variant, requested, api_key, env)
       IN  IF made.exited
           THEN pc' = "done" /\ outcome' = on_system_exit(entry) /\ UNCHANGED reviewer
           ELSE pc' = "constructed" /\ reviewer' = made /\ UNCHANGED outcome
    /\ UNCHANGED << unitVars, serverVars, sessionVars, requestVars, calls, master_prompt, ai_response,
                    summary, report, output >>

\* master_prompt = self.create_master_prompt(code_snippet, review_comments)
CreateMasterPrompt ==
    /\ pc = "constructed"
    /\ master_prompt' = create_master_prompt(variant, code_snippet_of(entry, input_data),
                                             review_comments_of(entry, input_data))
    /\ pc' = "prompted"
    /\ UNCHANGED << unitVars, serverVars, sessionVars, requestVars, reviewer, calls, ai_response, summary, report,
                    outcome, output >>

\* ai_response = self.call_ai_engine(master_prompt); the backend's reply is
\* the environment's choice.  An exception leaving the call ends the request
\* in the entry point's except clause.
CallAIEngine ==
    /\ pc = "prompted"
    /\ \E reply \in RepliesOf(reviewer.engine) :
        LET result == complete(variant, reviewer.engine, reply)
        IN  /\ calls' = Append(calls, [ prompt |-> master_prompt, reply |-> reply, result |-> result ])
            /\ IF result.raised
               THEN pc' = "done" /\ outcome' = on_exception(entry) /\ UNCHANGED ai_response
               ELSE /\ ai_response' = result.value
                    /\ pc' = after_call(result.value)
                    /\ UNCHANGED outcome
    /\ UNCHANGED << unitVars, serverVars, sessionVars, requestVars, reviewer, master_prompt, summary, report, output >>

\* summary = self.create_summary_analysis(code_snippet, review_comments)
CreateSummaryAnalysis ==
    /\ pc = "answered"
    /\ summary' = create_summary_analysis(variant, reviewer.engine,
                                          code_snippet_of(entry, input_data),
                                          review_comments_of(entry, input_data))
    /\ pc' = "summarised"
    /\ UNCHANGED << unitVars, serverVars, sessionVars, requestVars, reviewer, calls, master_prompt, ai_response,
                    report, outcome, output >>

\* report = f"""..."""; return report
BuildReport ==
    /\ pc = "summarised"
    /\ report' = build_report(variant, code_snippet_of(entry, input_data), ai_response, summary)
    /\ pc' = "reported"
    /\ UNCHANGED << unitVars, serverVars, sessionVars, requestVars, reviewer, calls, master_prompt, ai_response,
                    summary, outcome, output >>

\* f.write(result) in main(); return jsonify({... 'report': result ...}) in
\* review_code().
Deliver ==
    /\ pc = "reported"
    /\ output' = report
    /\ outcome' = delivered(entry)
    /\ pc' = "done"
    /\ UNCHANGED << unitVars, serverVars, sessionVars, requestVars, reviewer, calls, master_prompt, ai_response,
                    summary, report >>

Next ==
    \/ ValidateInput
    \/ ConstructReviewer
    \/ CreateMasterPrompt
    \/ CallAIEngine
    \/ CreateSummaryAnalysis
    \/ BuildReport
    \/ Deliver

Spec == Init /\ [][Next]_vars

(***************************************************************************)
(* process_review called on a constructed reviewer, for reviews whose      *)
(* comments are of every severity.                                         *)
(***************************************************************************)
\* The longest comment list handed to process_review on its own.
MaxReviewed == 3

InitReview ==
    /\ NoServer /\ NoSession
    /\ NoUnit
    /\ entry = Cli
    /\ variant \in Variants
    /\ input_data \in { [ has_code_snippet |-> TRUE, code_snippet |-> SnippetBoolean,
                          has_review_comments |-> TRUE, review_comments |-> l ] :
                          l \in ListsOver(SummaryComments, MaxReviewed) }
    /\ requested = EngineAuto
    /\ api_key = None
    /\ env \in Environments
    /\ variant = Advanced => env = [ GEMINI_AVAILABLE |-> FALSE, GEMINI_API_KEY |-> None, ollama_up |-> TRUE ]
    /\ variant = Gemini => env.GEMINI_AVAILABLE /\ env.ollama_up
    /\ ~ construct(variant, requested, api_key, env).exited
    /\ reviewer = construct(variant, requested, api_key, env)
    /\ pc = "constructed"
    /\ calls = <<>>
    /\ master_prompt = Unbound /\ ai_response = Unbound /\ summary = Unbound /\ report = Unbound
    /\ outcome = "pending"
    /\ output = Unbound

NextReview ==
    \/ CreateMasterPrompt
    \/ CallAIEngine
    \/ CreateSummaryAnalysis
    \/ BuildReport

SpecReview == InitReview /\ [][NextReview]_vars

(***************************************************************************)
(* analyze_comment_severity applied to two texts and to the first followed *)
(* by the second (a + b).                                                  *)
(***************************************************************************)
\* The most fragments in each of the two texts.
MaxJoined == 1

\* The texts classified, in the order of the calls.
Operands(a, b) == << a, b, a \o b >>

InitConcat ==
    /\ NoServer /\ NoSession
    /\ fn = "none"
    /\ args \in { [ a |-> s, b |-> t ] : s \in TextsOf(MaxJoined), t \in TextsOf(MaxJoined) }
    /\ ret = << >>
    /\ NoRequest

CallAnalyzeCommentSeverityOnNext ==
    /\ Len(ret) < 3
    /\ fn' = "analyze_comment_severity"
    /\ ret' = Append(ret, analyze_comment_severity(Operands(args.a, args.b)[Len(ret) + 1]))
    /\ UNCHANGED << args, serverVars, sessionVars, requestVars, reviewVars >>

NextConcat == CallAnalyzeCommentSeverityOnNext

SpecConcat == InitConcat /\ [][NextConcat]_vars

(***************************************************************************)
(* AdvancedEmpathethicReviewer (advanced_reviewer.py): the tables and      *)
(* methods of its deterministic core.                                      *)
(***************************************************************************)
\* The table of the class with 'bad' left out of the HARSH keywords.
advanced_severity_keywords_without_bad ==
    << [ severity |-> CRITICAL,
         keywords |-> << <<"t","e","r","r","i","b","l","e">>,
                       <<"a","w","f","u","l">>,
                       <<"h","o","r","r","i","b","l","e">>,
                       <<"s","t","u","p","i","d">>,
                       <<"i","d","i","o","t","i","c">>,
                       <<"g","a","r","b","a","g","e">> >> ],
       [ severity |-> HARSH,
         keywords |-> << <<"w","r","o","n","g">>,
                       <<"i","n","e","f","f","i","c","i","e","n","t">>,
                       <<"p","o","o","r">>,
                       <<"s","l","o","p","p","y">>,
                       <<"m","e","s","s","y">> >> ],
       [ severity |-> MODERATE,
         keywords |-> << <<"s","h","o","u","l","d">>,
                       <<"c","o","u","l","d">>,
                       <<"c","o","n","s","i","d","e","r">>,
                       <<"m","i","g","h","t"," ","w","a","n","t"," ","t","o">>,
                       <<"t","r","y">> >> ],
       [ severity |-> GENTLE,
         keywords |-> << <<"p","e","r","h","a","p","s">>,
                       <<"m","a","y","b","e">>,
                       <<"s","u","g","g","e","s","t","i","o","n">>,
                       <<"a","l","t","e","r","n","a","t","i","v","e","l","y">> >> ] >>

\* self.severity_keywords of AdvancedEmpathethicReviewer
advanced_severity_keywords ==
    << [ severity |-> CRITICAL,
         keywords |-> << <<"t","e","r","r","i","b","l","e">>,
                       <<"a","w","f","u","l">>,
                       <<"h","o","r","r","i","b","l","e">>,
                       <<"s","t","u","p","i","d">>,
                       <<"i","d","i","o","t","i","c">>,
                       <<"g","a","r","b","a","g","e">> >> ],
       [ severity |-> HARSH,
         keywords |-> << <<"b","a","d">>,
                       <<"w","r","o","n","g">>,
                       <<"i","n","e","f","f","i","c","i","e","n","t">>,
                       <<"p","o","o","r">>,
                       <<"s","l","o","p","p","y">>,
                       <<"m","e","s","s","y">> >> ],
       [ severity |-> MODERATE,
         keywords |-> << <<"s","h","o","u","l","d">>,
                       <<"c","o","u","l","d">>,
                       <<"c","o","n","s","i","d","e","r">>,
                       <<"m","i","g","h","t"," ","w","a","n","t"," ","t","o">>,
                       <<"t","r","y">> >> ],
       [ severity |-> GENTLE,
         keywords |-> << <<"p","e","r","h","a","p","s">>,
                       <<"m","a","y","b","e">>,
                       <<"s","u","g","g","e","s","t","i","o","n">>,
                       <<"a","l","t","e","r","n","a","t","i","v","e","l","y">> >> ] >>

\* self.code_patterns of AdvancedEmpathethicReviewer
advanced_code_patterns ==
    <<
       \* r'for .+ in .+:\s*if .+:\s*.+\.append'
       [ name |-> "list_comprehension",
         regex |-> Cat(<< Lit(<<"f","o","r"," ">>), Plus(Dot), Lit(<<" ","i","n"," ">>), Plus(Dot), Lit(<<":">>),
                    Star(Set(Whitespace)), Lit(<<"i","f"," ">>), Plus(Dot), Lit(<<":">>),
                    Star(Set(Whitespace)), Plus(Dot), Lit(<<".","a","p","p","e","n","d">>) >>) ],
       \* r'== True|== False'
       [ name |-> "boolean_redundancy",
         regex |-> Alt(<< Lit(<<"=","="," ","T","r","u","e">>), Lit(<<"=","="," ","F","a","l","s","e">>) >>) ],
       \* r'\b[a-z]\b(?!\s*=)'
       [ name |-> "single_letter_vars",
         regex |-> Cat(<< WordBoundary, Set(LowerLetters), WordBoundary,
                    NotFollowedBy(Cat(<< Star(Set(Whitespace)), Lit(<<"=">>) >>)) >>) ],
       \* r'\b\d{2,}\b'
       [ name |-> "magic_numbers",
         regex |-> Cat(<< WordBoundary, Set(Digits), Plus(Set(Digits)), WordBoundary >>) ],
       \* r'for .+ in .+:\s*for .+ in'
       [ name |-> "nested_loops",
         regex |-> Cat(<< Lit(<<"f","o","r"," ">>), Plus(Dot), Lit(<<" ","i","n"," ">>), Plus(Dot), Lit(<<":">>),
                    Star(Set(Whitespace)), Lit(<<"f","o","r"," ">>), Plus(Dot), Lit(<<" ","i","n">>) >>) ] >>

advanced_analyze_comment_severity(comment) ==
    LET comment_lower == lower(comment)
    IN  severity_loop(advanced_severity_keywords, comment_lower, 1)

advanced_detect_code_patterns(code) == detect_code_patterns_in(advanced_code_patterns, code)

\* tone_map.get(severity, "Let's look at this feedback")
advanced_get_contextual_tone(severity) ==
    LET own_tone_map ==
            (CRITICAL :> "I understand this feedback might have felt harsh. Let's reframe it constructively") @@
            (HARSH :> "This is actually a great learning opportunity") @@
            (MODERATE :> "Good observation! Here's how we can build on it") @@
            (GENTLE :> "Nice suggestion! Let's explore this further")
    IN  IF severity \in Unhashable THEN TypeError
        ELSE IF severity \in DOMAIN own_tone_map THEN own_tone_map[severity]
        ELSE "Let's look at this feedback"

\* total_severity > len(comments) * 0.6, in integers: 5 * total > 3 * len
advanced_encouragement_level(comments) ==
    LET own_total_severity ==
            Cardinality({ i \in DOMAIN comments :
                            advanced_analyze_comment_severity(comments[i]) \in { HARSH, CRITICAL } })
    IN  IF 5 * own_total_severity > 3 * Len(comments) THEN "extra_high"
        ELSE IF own_total_severity > 0 THEN "high"
        ELSE "standard"

(***************************************************************************)
(* GeminiEmpathethicReviewer (gemini_reviewer.py): the tables and          *)
(* methods of its deterministic core.                                      *)
(***************************************************************************)
\* self.severity_keywords of GeminiEmpathethicReviewer
gemini_severity_keywords ==
    << [ severity |-> CRITICAL,
         keywords |-> << <<"t","e","r","r","i","b","l","e">>,
                       <<"a","w","f","u","l">>,
                       <<"h","o","r","r","i","b","l","e">>,
                       <<"s","t","u","p","i","d">>,
                       <<"i","d","i","o","t","i","c">>,
                       <<"g","a","r","b","a","g","e">> >> ],
       [ severity |-> HARSH,
         keywords |-> << <<"b","a","d">>,
                       <<"w","r","o","n","g">>,
                       <<"i","n","e","f","f","i","c","i","e","n","t">>,
                       <<"p","o","o","r">>,
                       <<"s","l","o","p","p","y">>,
                       <<"m","e","s","s","y">> >> ],
       [ severity |-> MODERATE,
         keywords |-> << <<"s","h","o","u","l","d">>,
                       <<"c","o","u","l","d">>,
                       <<"c","o","n","s","i","d","e","r">>,
                       <<"m","i","g","h","t"," ","w","a","n","t"," ","t","o">>,
                       <<"t","r","y">> >> ],
       [ severity |-> GENTLE,
         keywords |-> << <<"p","e","r","h","a","p","s">>,
                       <<"m","a","y","b","e">>,
                       <<"s","u","g","g","e","s","t","i","o","n">>,
                       <<"a","l","t","e","r","n","a","t","i","v","e","l","y">> >> ] >>

\* self.code_patterns of GeminiEmpathethicReviewer
gemini_code_patterns ==
    <<
       \* r'for .+ in .+:\s*if .+:\s*.+\.append'
       [ name |-> "list_comprehension",
         regex |-> Cat(<< Lit(<<"f","o","r"," ">>), Plus(Dot), Lit(<<" ","i","n"," ">>), Plus(Dot), Lit(<<":">>),
                    Star(Set(Whitespace)), Lit(<<"i","f"," ">>), Plus(Dot), Lit(<<":">>),
                    Star(Set(Whitespace)), Plus(Dot), Lit(<<".","a","p","p","e","n","d">>) >>) ],
       \* r'== True|== False'
       [ name |-> "boolean_redundancy",
         regex |-> Alt(<< Lit(<<"=","="," ","T","r","u","e">>), Lit(<<"=","="," ","F","a","l","s","e">>) >>) ],
       \* r'\b[a-z]\b(?!\s*=)'
       [ name |-> "single_letter_vars",
         regex |-> Cat(<< WordBoundary, Set(LowerLetters), WordBoundary,
                    NotFollowedBy(Cat(<< Star(Set(Whitespace)), Lit(<<"=">>) >>)) >>) ],
       \* r'\b\d{2,}\b'
       [ name |-> "magic_numbers",
         regex |-> Cat(<< WordBoundary, Set(Digits), Plus(Set(Digits)), WordBoundary >>) ],
       \* r'for .+ in .+:\s*for .+ in'
       [ name |-> "nested_loops",
         regex |-> Cat(<< Lit(<<"f","o","r"," ">>), Plus(Dot), Lit(<<" ","i","n"," ">>), Plus(Dot), Lit(<<":">>),
                    Star(Set(Whitespace)), Lit(<<"f","o","r"," ">>), Plus(Dot), Lit(<<" ","i","n">>) >>) ] >>

gemini_analyze_comment_severity(comment) ==
    LET comment_lower == lower(comment)
    IN  severity_loop(gemini_severity_keywords, comment_lower, 1)

gemini_detect_code_patterns(code) == detect_code_patterns_in(gemini_code_patterns, code)

\* tone_map.get(severity, "Let's look at this feedback")
gemini_get_contextual_tone(severity) ==
    LET own_tone_map ==
            (CRITICAL :> "I understand this feedback might have felt harsh. Let's reframe it constructively") @@
            (HARSH :> "This is actually a great learning opportunity") @@
            (MODERATE :> "Good observation! Here's how we can build on it") @@
            (GENTLE :> "Nice suggestion! Let's explore this further")
    IN  IF severity \in Unhashable THEN TypeError
        ELSE IF severity \in DOMAIN own_tone_map THEN own_tone_map[severity]
        ELSE "Let's look at this feedback"

\* total_severity > len(comments) * 0.6, in integers: 5 * total > 3 * len
gemini_encouragement_level(comments) ==
    LET own_total_severity ==
            Cardinality({ i \in DOMAIN comments :
                            gemini_analyze_comment_severity(comments[i]) \in { HARSH, CRITICAL } })
    IN  IF 5 * own_total_severity > 3 * Len(comments) THEN "extra_high"
        ELSE IF own_total_severity > 0 THEN "high"
        ELSE "standard"

(***************************************************************************)
(* The deterministic methods of the three classes called on one snippet    *)
(* and one comment list.  Each module has its own CommentSeverity Enum     *)
(* with the same member names and values; results are told apart by member *)
(* name.                                                                   *)
(***************************************************************************)
\* The longest comment list handed to the three classes.
MaxCoreComments == 2

\* What the deterministic methods of one class return for a snippet and a
\* comment list: analyze_comment_severity per comment, detect_code_patterns,
\* get_contextual_tone per severity, and the level of create_summary_analysis.
deterministic_core(v, code, comments) ==
    CASE v = Ultimate ->
           [ severities |-> [ i \in DOMAIN comments |-> analyze_comment_severity(comments[i]) ],
             patterns   |-> detect_code_patterns(code),
             tones      |-> [ s \in CommentSeverity |-> get_contextual_tone(s) ],
             level      |-> encouragement_level(comments) ]
      [] v = Advanced ->
           [ severities |-> [ i \in DOMAIN comments |-> advanced_analyze_comment_severity(comments[i]) ],
             patterns   |-> advanced_detect_code_patterns(code),
             tones      |-> [ s \in CommentSeverity |-> advanced_get_contextual_tone(s) ],
             level      |-> advanced_encouragement_level(comments) ]
      [] v = Gemini ->
           [ severities |-> [ i \in DOMAIN comments |-> gemini_analyze_comment_severity(comments[i]) ],
             patterns   |-> gemini_detect_code_patterns(code),
             tones      |-> [ s \in CommentSeverity |-> gemini_get_contextual_tone(s) ],
             level      |-> gemini_encouragement_level(comments) ]

InitCore ==
    /\ NoServer /\ NoSession
    /\ fn = "none"
    /\ args \in { [ code |-> c, comments |-> l ] :
                    c \in Snippets, l \in ListsOver(SummaryComments, MaxCoreComments) }
    /\ ret = << >>
    /\ NoRequest

CallDeterministicCore(v) ==
    /\ v \notin DOMAIN ret
    /\ fn' = v
    /\ ret' = ret @@ (v :> deterministic_core(v, args.code, args.comments))
    /\ UNCHANGED << args, serverVars, sessionVars, requestVars, reviewVars >>

NextCore == \E v \in Variants : CallDeterministicCore(v)

SpecCore == InitCore /\ [][NextCore]_vars

(***************************************************************************)
(* UltimateEmpathethicReviewer(engine, api_key), statement by statement.   *)
(* The local service is another process: between the check made by         *)
(* _determine_engine and the one made by _init_ollama it may start or      *)
(* stop answering.  A key may be None, empty or a text.                    *)
(***************************************************************************)
KeysParam == { None, "", "param-key" }

EnvironmentsOfConstruct ==
    [ GEMINI_AVAILABLE : BOOLEAN, GEMINI_API_KEY : { None, "", "env-key" }, ollama_up : BOOLEAN ]

InitConstruct ==
    /\ NoServer /\ NoSession
    /\ NoUnit
    /\ entry = None /\ variant = Ultimate /\ input_data = None
    /\ requested \in AIEngine
    /\ api_key \in KeysParam
    /\ env \in EnvironmentsOfConstruct
    /\ pc = "__init__"
    /\ reviewer = NoReviewer
    /\ calls = <<>>
    /\ master_prompt = Unbound /\ ai_response = Unbound /\ summary = Unbound /\ report = Unbound
    /\ outcome = "pending"
    /\ output = Unbound

\* self.engine = self._determine_engine(engine, api_key)
DetermineEngine ==
    /\ pc = "__init__"
    /\ LET engine == _determine_engine(requested, api_key, env)
       IN  IF engine = SystemExit
           THEN pc' = "done" /\ outcome' = SystemExit /\ UNCHANGED reviewer
           ELSE /\ pc' = "engine_determined"
                /\ reviewer' = Reviewer(engine, None, None)
                /\ UNCHANGED outcome
    /\ UNCHANGED << unitVars, serverVars, sessionVars, requestVars, calls, master_prompt, ai_response,
                    summary, report, output >>

\* self.api_key = api_key or os.getenv('GEMINI_API_KEY'), then _init_gemini
\* or _init_ollama.
InitEngine ==
    /\ pc = "engine_determined"
    /\ LET key == key_or_env(api_key, env)
           configured == init_engine(reviewer.engine, key, env)
       IN  IF configured = SystemExit
           THEN pc' = "done" /\ outcome' = SystemExit /\ reviewer' = NoReviewer
           ELSE /\ pc' = "constructed"
                /\ reviewer' = Reviewer(reviewer.engine, key, configured)
                /\ UNCHANGED outcome
    /\ UNCHANGED << unitVars, serverVars, sessionVars, requestVars, calls, master_prompt, ai_response,
                    summary, report, output >>

\* The local service starts or stops answering while the constructor runs.
OllamaChanges ==
    /\ pc \in { "__init__", "engine_determined" }
    /\ env' = [ env EXCEPT !.ollama_up = ~ env.ollama_up ]
    /\ UNCHANGED << unitVars, serverVars, sessionVars, entry, variant, input_data, requested, api_key, reviewVars >>

NextConstruct ==
    \/ DetermineEngine
    \/ InitEngine
    \/ OllamaChanges

SpecConstruct == InitConstruct /\ [][NextConstruct]_vars

(***************************************************************************)
(* The web server handling two /api/review requests at once, one thread    *)
(* each.  A handler's locals and its reviewer object belong to its thread; *)
(* the key stored by genai.configure belongs to the process.  The model    *)
(* object is made without a key, genai.GenerativeModel('gemini-1.5-flash'):*)
(* the library takes the stored key when it makes the model's client,      *)
(* either with the model or at the model's first call.                     *)
(***************************************************************************)
Requests == { 1, 2 }

\* The api_key field of each request's JSON body, when it has one.
RequestKey(t) == IF t = 1 THEN "key-1" ELSE "key-2"

\* The body of each request: a snippet and one comment, both its own.
RequestData(t) ==
    [ has_code_snippet |-> TRUE,
      code_snippet |-> IF t = 1 THEN SnippetAssign ELSE SnippetBoolean,
      has_review_comments |-> TRUE,
      review_comments |-> IF t = 1
          THEN << <<"B","A","D">> >>
          ELSE << <<"m","a","y","b","e"," ","r","e","n","a","m","e"," ","u">> >> ]

\* A handler thread before its first statement.
Handler(t, engine_option, key) ==
    [ pc |-> "main", data |-> RequestData(t), engine_option |-> engine_option,
      api_key |-> key, reviewer |-> NoReviewer, client_key |-> None,
      master_prompt |-> Unbound, calls |-> <<>>, ai_response |-> Unbound,
      report |-> Unbound, outcome |-> "pending", output |-> Unbound ]

InitServer ==
    /\ NoUnit /\ NoSession
    /\ entry = Web /\ variant = Ultimate /\ input_data = None
    /\ requested = None /\ api_key = None
    /\ env \in { e \in Environments : e.GEMINI_AVAILABLE }
    /\ pc = "serving"
    /\ reviewer = NoReviewer
    /\ calls = <<>>
    /\ master_prompt = Unbound /\ ai_response = Unbound /\ summary = Unbound /\ report = Unbound
    /\ outcome = "pending"
    /\ output = Unbound
    /\ genai_api_key = None
    /\ threads \in { [ t \in Requests |-> Handler(t, option[t], IF keyed[t] THEN RequestKey(t) ELSE None) ] :
                        option \in [ Requests -> AIEngine ], keyed \in [ Requests -> BOOLEAN ] }

\* The thread's record with some fields replaced.
Step(t, changes) ==
    threads' = [ threads EXCEPT ![t] = [ f \in DOMAIN @ |->
                    IF f \in DOMAIN changes THEN changes[f] ELSE @[f] ] ]

\* review_code(): read the fields and validate.
ServeValidateInput(t) ==
    /\ threads[t].pc = "main"
    /\ IF web_input_ok(threads[t].data)
       THEN Step(t, [ pc |-> "validated" ])
       ELSE Step(t, [ pc |-> "done", outcome |-> rejected(Web) ])
    /\ UNCHANGED << unitVars, sessionVars, requestVars, reviewVars, genai_api_key >>

\* self.engine = self._determine_engine(engine, api_key)
ServeDetermineEngine(t) ==
    /\ threads[t].pc = "validated"
    /\ LET engine == _determine_engine(threads[t].engine_option, threads[t].api_key, env)
       IN  IF engine = SystemExit
           THEN Step(t, [ pc |-> "done", outcome |-> on_system_exit(Web) ])
           ELSE Step(t, [ pc |-> "engine_determined", reviewer |-> Reviewer(engine, None, None) ])
    /\ UNCHANGED << unitVars, sessionVars, requestVars, reviewVars, genai_api_key >>

\* self.api_key = api_key or os.getenv('GEMINI_API_KEY'); then _init_ollama,
\* or _init_gemini up to genai.configure(api_key=self.api_key).
ServeInitEngine(t) ==
    /\ threads[t].pc = "engine_determined"
    /\ LET engine == threads[t].reviewer.engine
           key == key_or_env(threads[t].api_key, env)
           configured == init_engine(engine, key, env)
       IN  IF configured = SystemExit
           THEN /\ Step(t, [ pc |-> "done", outcome |-> on_system_exit(Web), reviewer |-> NoReviewer ])
                /\ UNCHANGED genai_api_key
           ELSE IF engine = EngineGemini
           THEN /\ genai_api_key' = configured
                /\ Step(t, [ pc |-> "configured", reviewer |-> Reviewer(engine, key, configured) ])
           ELSE /\ Step(t, [ pc |-> "constructed", reviewer |-> Reviewer(engine, key, configured) ])
                /\ UNCHANGED genai_api_key
    /\ UNCHANGED << unitVars, sessionVars, requestVars, reviewVars >>

\* self.model = genai.GenerativeModel('gemini-1.5-flash'): the client takes
\* the stored key now, or stays unmade until the first call.
ServeMakeModel(t) ==
    /\ threads[t].pc = "configured"
    /\ \E taken \in { None, genai_api_key } :
        Step(t, [ pc |-> "constructed", client_key |-> taken ])
    /\ UNCHANGED << unitVars, sessionVars, requestVars, reviewVars, genai_api_key >>

\* master_prompt = self.create_master_prompt(code_snippet, review_comments)
ServeCreateMasterPrompt(t) ==
    /\ threads[t].pc = "constructed"
    /\ Step(t, [ pc |-> "prompted",
                 master_prompt |-> create_master_prompt(Ultimate, web_code_snippet(threads[t].data),
                                                        web_comments(threads[t].data)) ])
    /\ UNCHANGED << unitVars, sessionVars, requestVars, reviewVars, genai_api_key >>

\* The key a Gemini call goes out with: the one its client took, which is
\* the stored one if the client is only made now.  Ollama takes no key.
credential_of(engine, client_key, stored) ==
    IF engine # EngineGemini THEN None
    ELSE IF client_key # None THEN client_key ELSE stored

\* ai_response = self.call_ai_engine(master_prompt)
ServeCallAIEngine(t) ==
    /\ threads[t].pc = "prompted"
    /\ \E reply \in RepliesOf(threads[t].reviewer.engine) :
        LET engine == threads[t].reviewer.engine
            result == call_ai_engine(engine, reply)
            credential == credential_of(engine, threads[t].client_key, genai_api_key)
            call == [ engine |-> engine, credential |-> credential,
                      prompt |-> threads[t].master_prompt, reply |-> reply, result |-> result ]
        IN  IF result.raised
            THEN Step(t, [ pc |-> "done", outcome |-> on_exception(Web),
                           calls |-> Append(threads[t].calls, call) ])
            ELSE Step(t, [ pc |-> after_call(result.value), ai_response |-> result.value,
                           client_key |-> credential,
                           calls |-> Append(threads[t].calls, call) ])
    /\ UNCHANGED << unitVars, sessionVars, requestVars, reviewVars, genai_api_key >>

\* The rest of process_review and of review_code: summary, report, and the
\* JSON response with status 200.  All of it works on the thread's locals.
ServeRespond(t) ==
    /\ threads[t].pc = "answered"
    /\ LET code_snippet == web_code_snippet(threads[t].data)
           summary_ == create_summary_analysis(Ultimate, threads[t].reviewer.engine,
                                               code_snippet, web_comments(threads[t].data))
           report_ == build_report(Ultimate, code_snippet, threads[t].ai_response, summary_)
       IN  Step(t, [ pc |-> "done", report |-> report_, output |-> report_,
                     outcome |-> delivered(Web) ])
    /\ UNCHANGED << unitVars, sessionVars, requestVars, reviewVars, genai_api_key >>

NextServer ==
    \E t \in Requests :
        \/ ServeValidateInput(t)
        \/ ServeDetermineEngine(t)
        \/ ServeInitEngine(t)
        \/ ServeMakeModel(t)
        \/ ServeCreateMasterPrompt(t)
        \/ ServeCallAIEngine(t)
        \/ ServeRespond(t)

SpecServer == InitServer /\ [][NextServer]_vars

(***************************************************************************)
(* get_contextual_tone called several times on one reviewer, with the four *)
(* severities and with values that are none of them: None, the text        *)
(* "gentle" (a member's value, not the member) and a list.                 *)
(***************************************************************************)
\* The most calls made on one reviewer.
MaxLookups == 3

ToneArguments == CommentSeverity \cup { None, "gentle" } \cup Unhashable

InitTone ==
    /\ NoServer
    /\ NoUnit
    /\ NoRequest
    /\ tables = None /\ caller_comments = None
    /\ history = <<>>

CallGetContextualTone ==
    /\ Len(history) < MaxLookups
    /\ \E severity \in ToneArguments :
        /\ fn' = "get_contextual_tone"
        /\ args' = [ severity |-> severity ]
        /\ ret' = get_contextual_tone(severity)
        /\ history' = Append(history, [ fn |-> "get_contextual_tone",
                                        args |-> [ severity |-> severity ],
                                        ret |-> get_contextual_tone(severity) ])
    /\ UNCHANGED << serverVars, requestVars, reviewVars, tables, caller_comments >>

NextTone == CallGetContextualTone

SpecTone == InitTone /\ [][NextTone]_vars

(***************************************************************************)
(* One reviewer object used for several calls.  The object holds the two   *)
(* tables __init__ assigned; the caller holds a list of comments and hands *)
(* that same list to create_master_prompt and process_review.  A method    *)
(* call gives a result and leaves the object and the list as its           *)
(* statements leave them: none of the four methods assigns to a field of   *)
(* self or changes an argument.                                            *)
(***************************************************************************)
\* The most calls made on one reviewer.
MaxOperations == 3

\* self.severity_keywords and self.code_patterns after __init__.
TablesOfInit == [ severity_keywords |-> severity_keywords, code_patterns |-> code_patterns ]

\* What a call leaves: its result, the object's tables, the caller's list.
Leaves(result, self, comments) == [ ret |-> result, self |-> self, comments |-> comments ]

analyze_comment_severity_on(self, comment, comments) ==
    Leaves(severity_loop(self.severity_keywords, lower(comment), 1), self, comments)

\* detect_code_patterns emptying the table it walks (popitem in the loop).
detect_code_patterns_on_popping(self, code, comments) ==
    Leaves(detect_code_patterns_in(self.code_patterns, code),
           [ self EXCEPT !.code_patterns = <<>> ], comments)

detect_code_patterns_on(self, code, comments) ==
    Leaves(detect_code_patterns_in(self.code_patterns, code), self, comments)

create_master_prompt_on(self, code_snippet, comments) ==
    Leaves(create_master_prompt(Ultimate, code_snippet, comments), self, comments)

\* process_review on {'code_snippet': ..., 'review_comments': comments}.
process_review_on(self, code_snippet, comments, engine, reply) ==
    LET ai_response_ == call_ai_engine(engine, reply).value
        summary_ == create_summary_analysis(Ultimate, engine, code_snippet, comments)
    IN  Leaves(build_report(Ultimate, code_snippet, ai_response_, summary_), self, comments)

SessionSnippets == { SnippetAssign, SnippetBoolean }

SessionLists ==
    { <<>>, << <<"B","A","D">> >>,
      << <<"m","a","y","b","e"," ","r","e","n","a","m","e"," ","u">>, <<"B","A","D">> >> }

InitSession ==
    /\ NoServer
    /\ NoUnit
    /\ entry = None /\ variant = Ultimate /\ input_data = None
    /\ requested = None /\ api_key = None /\ env = None
    /\ pc = "session"
    /\ reviewer = Reviewer(EngineOllama, None, None)
    /\ calls = <<>>
    /\ master_prompt = Unbound /\ ai_response = Unbound /\ summary = Unbound /\ report = Unbound
    /\ outcome = "pending" /\ output = Unbound
    /\ tables = TablesOfInit
    /\ caller_comments \in SessionLists
    /\ history = <<>>

\* One call: the result is returned and logged, the object and the list are
\* left as the method leaves them.
Called(method, arguments, left) ==
    /\ Len(history) < MaxOperations
    /\ fn' = method
    /\ args' = arguments
    /\ ret' = left.ret
    /\ tables' = left.self
    /\ caller_comments' = left.comments
    /\ history' = Append(history, [ fn |-> method, args |-> arguments, ret |-> left.ret ])
    /\ UNCHANGED << serverVars, requestVars, reviewVars >>

SessionAnalyzeCommentSeverity ==
    \E comment \in { <<"B","A","D">>, <<"r","e","n","a","m","e"," ","u">> } :
        Called("analyze_comment_severity", [ comment |-> comment ],
               analyze_comment_severity_on(tables, comment, caller_comments))

SessionDetectCodePatterns ==
    \E code \in SessionSnippets :
        Called("detect_code_patterns", [ code |-> code ],
               detect_code_patterns_on(tables, code, caller_comments))

SessionCreateMasterPrompt ==
    \E code \in SessionSnippets :
        Called("create_master_prompt", [ code |-> code, comments |-> caller_comments ],
               create_master_prompt_on(tables, code, caller_comments))

SessionProcessReview ==
    \E code \in SessionSnippets :
        Called("process_review", [ code |-> code, comments |-> caller_comments ],
               process_review_on(tables, code, caller_comments, reviewer.engine,
                                 ReplyText(<<"#","#","#"," ","o","k">>)))

NextSession ==
    \/ SessionAnalyzeCommentSeverity
    \/ SessionDetectCodePatterns
    \/ SessionCreateMasterPrompt
    \/ SessionProcessReview

SpecSession == InitSession /\ [][NextSession]_vars

(***************************************************************************)
(* Properties of the severity classifier.                                  *)
(***************************************************************************)
Rank(s) == CASE s = GENTLE -> 1 [] s = MODERATE -> 2 [] s = HARSH -> 3 [] s = CRITICAL -> 4

KeywordsOf(s) == CHOOSE e \in Range(severity_keywords) : e.severity = s

\* The severities whose keyword set has a keyword somewhere in the comment,
\* letter case aside.
MatchedSeverities(comment) ==
    { s \in CommentSeverity :
        \E k \in Range(KeywordsOf(s).keywords) :
            \E i \in 1..Len(comment) :
                /\ i + Len(k) - 1 <= Len(comment)
                /\ \A j \in 1..Len(k) : lower_char(comment[i + j - 1]) = k[j] }

Classified == fn = "analyze_comment_severity"

\* C1: the classifier returns the harshest severity (CRITICAL > HARSH >
\* MODERATE > GENTLE) among those whose keyword set has a keyword in the
\* comment; with a CRITICAL keyword present the result is CRITICAL whatever
\* milder keywords are present too.
C1_HarshestMatchWins ==
    Classified =>
        LET m == MatchedSeverities(args.comment)
        IN  /\ m # {} => ( ret \in m /\ \A s \in m : Rank(s) <= Rank(ret) )
            /\ CRITICAL \in m => ret = CRITICAL

C1_Witness ==
    /\ Classified
    /\ { CRITICAL, GENTLE } \subseteq MatchedSeverities(args.comment)
    /\ ret = CRITICAL

\* C2: the classifier is total: every text, the empty one included, gets one
\* of the four severities, and a text with no keyword of any set gets GENTLE.
C2_TotalDefaultGentle ==
    Classified =>
        /\ ret \in CommentSeverity
        /\ MatchedSeverities(args.comment) = {} => ret = GENTLE

C2_Witness ==
    /\ Classified
    /\ args.comment = <<>>
    /\ ret = GENTLE

(***************************************************************************)
(* Properties of the encouragement policy.                                 *)
(***************************************************************************)
Summarised == fn = "create_summary_analysis"

\* The paragraph of the returned summary is the one keyed by this level.
LevelIs(level) == ret[2] = summary_prompts_of(args.variant)[level]

\* The comments of the review classified HARSH or CRITICAL.
HarshCount ==
    Cardinality({ i \in DOMAIN args.comments :
                    Rank(analyze_comment_severity(args.comments[i])) >= 3 })

\* C3: for a review of total >= 1 comments with harsh_count of them HARSH or
\* CRITICAL, the level is EXTRA_HIGH exactly when harsh_count > 0.6 * total,
\* HIGH exactly when 0 < harsh_count <= 0.6 * total (3 of 5 is HIGH), and
\* STANDARD exactly when harsh_count = 0.
C3_LevelThresholds ==
    (Summarised /\ Len(args.comments) >= 1) =>
        LET total == Len(args.comments)
            harsh_count == HarshCount
        IN  /\ LevelIs("extra_high") <=> 10 * harsh_count > 6 * total
            /\ LevelIs("high") <=> (0 < harsh_count /\ 10 * harsh_count <= 6 * total)
            /\ LevelIs("standard") <=> harsh_count = 0

C3_Witness ==
    /\ Summarised
    /\ Len(args.comments) = 5
    /\ HarshCount = 3
    /\ LevelIs("high")

Occurs(chunk, doc) == \E i \in DOMAIN doc : doc[i] = chunk

FirstIndex(chunks, doc) ==
    CHOOSE i \in DOMAIN doc : doc[i] \in chunks /\ \A j \in 1..(i - 1) : doc[j] \notin chunks

\* What stands between the first chunk of `from` and the next chunk of `to`.
Between(doc, from, to) ==
    LET a == FirstIndex(from, doc)
        rest == SubSeq(doc, a + 1, Len(doc))
        b == FirstIndex(to, rest)
    IN  SubSeq(rest, 1, b - 1)

\* The lines of a section: split at every newline; no line in an empty one.
RECURSIVE LinesOf(_)
LinesOf(doc) ==
    IF doc = <<>> THEN <<>>
    ELSE IF \E i \in DOMAIN doc : doc[i] = "\n"
    THEN LET i == FirstIndex({ "\n" }, doc)
         IN  << SubSeq(doc, 1, i - 1) >> \o LinesOf(SubSeq(doc, i + 1, Len(doc)))
    ELSE << doc >>

Contains(doc, part) ==
    \E i \in 0..(Len(doc) - Len(part)) :
        \A j \in 1..Len(part) : doc[i + j] = part[j]

PatternsHeadings == { "\n'''\n\n**DETECTED CODE PATTERNS:** ", "\n'''\n\n**DETECTED PATTERNS:** " }

PromptTails ==
    { "\n\n**REQUIRED OUTPUT FORMAT:** ... Generate the complete analysis for ALL ",
      "\n\n**YOUR MISSION:** ... ### Analysis of Comment: \"" }

\* The request's snippet and comments as process_review receives them.
TheSnippet == code_snippet_of(entry, input_data)
TheComments == review_comments_of(entry, input_data)

(***************************************************************************)
(* Properties of the instruction payload.                                  *)
(***************************************************************************)
SeverityLines == LinesOf(Between(master_prompt, { SeverityHeading }, { CommentsHeading }))
CommentLines == LinesOf(Between(master_prompt, { CommentsHeading }, PromptTails))

\* C5: for a comment sequence of length n the payload holds exactly n
\* severity lines and exactly n numbered comment lines, numbered 1..n in
\* input order; comment line i quotes comment i verbatim, severity line i
\* carries the severity and tone of comment i.
C5_PayloadLinesMatchComments ==
    master_prompt # Unbound =>
        LET comments == TheComments
            severity_lines == SeverityLines
            comment_lines == CommentLines
        IN  /\ Len(severity_lines) = Len(comments)
            /\ Len(comment_lines) = Len(comments)
            /\ \A i \in DOMAIN comments :
                LET severity == analyze_comment_severity(comments[i])
                IN  /\ comment_lines[i] = str_of(i) \o << ". \"" >> \o comments[i] \o << "\"" >>
                    /\ severity_lines[i] = << "Comment " >> \o str_of(i)
                                           \o << ": ", severity_value(severity), " severity - ",
                                                 tone_map[severity] >>

C5_Witness ==
    /\ master_prompt # Unbound
    /\ Len(TheComments) = 2
    /\ TheComments[1] # TheComments[2]
    /\ Len(CommentLines) = 2
    /\ Contains(CommentLines[2], TheComments[2])
    /\ SeverityLines[1] # SeverityLines[2]

PatternsSection == Between(master_prompt, PatternsHeadings, { SeverityHeading })

ActiveFlags ==
    { f.name : f \in { g \in Range(detect_code_patterns(TheSnippet)) : g.found } }

\* C6: the payload lists exactly the names of the pattern flags active for
\* the snippet; when none is active it carries the marker in place of the list.
C6_PayloadListsActivePatterns ==
    master_prompt # Unbound =>
        LET active == ActiveFlags
            listed == PatternsSection
        IN  IF active = {}
            THEN listed = << NoPatternsMarker >>
            ELSE /\ Range(listed) \cap PatternNames = active
                 /\ Range(listed) \subseteq PatternNames \cup { ", " }
                 /\ Len(listed) = 2 * Cardinality(active) - 1

C6_Witness ==
    /\ master_prompt # Unbound
    /\ ActiveFlags = {}
    /\ Occurs(NoPatternsMarker, master_prompt)

(***************************************************************************)
(* Properties of the completion call and the report.                       *)
(***************************************************************************)
ErrorPrefixes ==
    { "Gemini API Error: ", "Ollama API Error: ", "Ollama Connection Error: ",
      "API Error: ", "Connection error: ", "Unexpected error: " }

IsPlaceholder(text) == text # Unbound /\ text # <<>> /\ text[1] \in ErrorPrefixes

CallFailed == calls # <<>> /\ calls[1].reply.kind # "text"

\* The level of the thresholds: above 60% harsh or critical, some, none.
ThresholdLevel(comments) ==
    LET harsh == Cardinality({ i \in DOMAIN comments :
                                 Rank(analyze_comment_severity(comments[i])) >= 3 })
    IN  IF 10 * harsh > 6 * Len(comments) THEN "extra_high"
        ELSE IF harsh > 0 THEN "high" ELSE "standard"

\* C7: when the completion call fails (a status other than 200, a connection
\* error, any exception of the backend) the call returns an error placeholder
\* and does not raise, and the request still ends with a report that holds
\* the snippet verbatim, the placeholder as its body, and the summary
\* paragraph of the level of the comments.
C7_FailedCallStillReports ==
    CallFailed =>
        /\ ~ calls[1].result.raised
        /\ IsPlaceholder(ai_response)
        /\ pc = "done" =>
            /\ outcome = delivered(entry)
            /\ output # Unbound
            /\ Contains(output, TheSnippet)
            /\ Contains(output, ai_response)
            /\ Contains(output, << summary_prompts_of(variant)[ThresholdLevel(TheComments)] >>)

C7_Witness ==
    /\ CallFailed
    /\ pc = "done"
    /\ calls[1].reply.kind = "status"
    /\ Contains(output, << "Ollama API Error: ", "5", "0", "0" >>)

\* C8: the report embeds the collaborator's text verbatim: it is the fixed
\* head, the snippet, the fixed middle, that text unchanged, and the summary;
\* with the text taken out, what is left is the report of the empty text.
C8_ReportEmbedsResponseVerbatim ==
    report # Unbound =>
        LET text == calls[1].result.value
            bare == build_report(variant, TheSnippet, <<>>, summary)
            k == 1 + Len(TheSnippet) + 1
        IN  /\ Len(report) = Len(bare) + Len(text)
            /\ SubSeq(report, 1, k) = SubSeq(bare, 1, k)
            /\ SubSeq(report, k + 1, k + Len(text)) = text
            /\ SubSeq(report, k + Len(text) + 1, Len(report)) = SubSeq(bare, k + 1, Len(bare))
            /\ SubSeq(report, 2, k - 1) = TheSnippet
            /\ SubSeq(report, k + Len(text) + 1, k + Len(text) + 1 + Len(summary))
                 = << "\n\n" >> \o summary

C8_Witness ==
    /\ report # Unbound
    /\ calls[1].reply.kind = "text"
    /\ calls[1].reply.text # strip(calls[1].reply.text)
    /\ Contains(report, calls[1].reply.text)

\* C9: within a request the payload is built, then the collaborator is called
\* exactly once with that payload, then the report is built from what the
\* call returned; no second call whatever the first returned, no report
\* before the call returned.
C9_OneCallBetweenPromptAndReport ==
    /\ Len(calls) <= 1
    /\ calls # <<>> => ( master_prompt # Unbound /\ calls[1].prompt = master_prompt )
    /\ ai_response # Unbound => ( calls # <<>> /\ ai_response = calls[1].result.value )
    /\ summary # Unbound => ai_response # Unbound
    /\ report # Unbound =>
        /\ Len(calls) = 1
        /\ ~ calls[1].result.raised
        /\ summary # Unbound
        /\ Contains(report, calls[1].result.value)

C9_Witness ==
    /\ pc = "done"
    /\ report # Unbound
    /\ Len(calls) = 1
    /\ calls[1].reply.kind = "request_exception"

(***************************************************************************)
(* Properties of the entry points.                                         *)
(***************************************************************************)
FieldMissing ==
    ~ input_data.has_code_snippet \/ ~ input_data.has_review_comments

\* C10: a request with the code_snippet or the review_comments field missing
\* is rejected with an input error on every entry point: no reviewer is
\* constructed, no completion call is made, no report is produced or written.
C10_MissingFieldRejected ==
    FieldMissing =>
        /\ pc \in { "main", "done" }
        /\ pc = "done" => outcome = rejected(entry)
        /\ reviewer = NoReviewer
        /\ calls = <<>>
        /\ report = Unbound
        /\ output = Unbound

C10_Witness ==
    /\ FieldMissing
    /\ pc = "done"
    /\ entry = Web
    /\ input_data.has_code_snippet /\ input_data.code_snippet # <<>>
    /\ outcome = "http_400"

(***************************************************************************)
(* Properties of input validation: an empty list of comments.              *)
(***************************************************************************)
\* The request carries the review_comments key with an empty list.
CommentsEmpty ==
    pc # "idle" /\ input_data.has_review_comments /\ input_data.review_comments = <<>>

\* C11: a request whose review_comments list is present but empty is rejected
\* with an input error on every entry point: no instruction payload is built,
\* no completion call is made, no report is produced.
C11_EmptyCommentsRejected ==
    CommentsEmpty =>
        /\ master_prompt = Unbound
        /\ calls = <<>>
        /\ report = Unbound /\ output = Unbound
        /\ pc = "done" => outcome = rejected(entry)

\* C11: the script of the ultimate reviewer takes a request with a snippet
\* and an empty list of comments through the whole pipeline and writes a
\* report, while the web handler answers the same request with status 400.
C11_Witness ==
    /\ CommentsEmpty
    /\ input_data.has_code_snippet /\ input_data.code_snippet # <<>>
    /\ entry = Cli /\ variant = Ultimate
    /\ Len(calls) = 1 /\ master_prompt # Unbound
    /\ outcome = "report_written" /\ output = report /\ report # Unbound

(***************************************************************************)
(* Properties of the engine selection.                                     *)
(***************************************************************************)
\* A credential is present: the explicit parameter or GEMINI_API_KEY is a
\* non-empty text.
CredentialPresent == truthy(api_key) \/ truthy(env.GEMINI_API_KEY)

\* The step in which _determine_engine runs.
Determines == pc = "__init__" /\ pc' # "__init__"

\* C12: with the automatic option, _determine_engine selects Gemini whenever
\* the library is available and a credential is present, whether or not the
\* local service answers; otherwise Ollama exactly when the local service
\* answers; otherwise construction fails and no reviewer is produced.
C12_AutoPrefersCloudThenLocal ==
    [][ (Determines /\ requested = EngineAuto) =>
            IF env.GEMINI_AVAILABLE /\ CredentialPresent
            THEN pc' = "engine_determined" /\ reviewer'.engine = EngineGemini
            ELSE IF env.ollama_up
            THEN pc' = "engine_determined" /\ reviewer'.engine = EngineOllama
            ELSE pc' = "done" /\ outcome' = SystemExit /\ reviewer' = NoReviewer ]_vars

\* C12: the automatic option chose Gemini on an environment key alone while
\* the local service was answering.
C12_Witness ==
    /\ pc = "engine_determined" /\ requested = EngineAuto
    /\ reviewer.engine = EngineGemini
    /\ api_key = None /\ env.GEMINI_API_KEY = "env-key" /\ env.ollama_up

(***************************************************************************)
(* Properties of the credential of the cloud backend.                      *)
(***************************************************************************)
\* The request asks for the cloud backend outright.
CloudRequested == variant = Gemini \/ (variant = Ultimate /\ requested = EngineGemini)

\* C13: a reviewer whose backend is Gemini is never constructed without a
\* credential, taken from the explicit parameter or, failing that, from
\* GEMINI_API_KEY; when neither supplies one, construction fails and no
\* completion call is made.
C13_CloudNeedsCredential ==
    /\ reviewer.engine = EngineGemini =>
        /\ CredentialPresent
        /\ reviewer.api_key = (IF truthy(api_key) THEN api_key ELSE env.GEMINI_API_KEY)
        /\ reviewer.configured = reviewer.api_key
    /\ (CloudRequested /\ ~ CredentialPresent) =>
        /\ reviewer = NoReviewer
        /\ calls = <<>>
        /\ pc = "done" => outcome \in { rejected(entry), on_system_exit(entry) }

\* C13: Gemini was requested with the library installed and no key anywhere,
\* on a valid input, and the construction exited.
C13_Witness ==
    /\ variant = Ultimate /\ requested = EngineGemini /\ env.GEMINI_AVAILABLE
    /\ ~ CredentialPresent
    /\ input_ok(entry, input_data)
    /\ pc = "done" /\ outcome = on_system_exit(entry) /\ calls = <<>>

(***************************************************************************)
(* Properties of concurrent requests.                                      *)
(***************************************************************************)
\* The report the thread's own inputs and its own backend answer make.
OwnReport(t) ==
    LET code_snippet == web_code_snippet(threads[t].data)
    IN  build_report(Ultimate, code_snippet, threads[t].ai_response,
                     create_summary_analysis(Ultimate, threads[t].reviewer.engine, code_snippet,
                                             web_comments(threads[t].data)))

\* C14: under every interleaving of two /api/review requests, each request's
\* completion call uses that request's own backend and its own credential,
\* and each report depends only on that request's inputs and on the answer
\* to its own call.
C14_RequestsDoNotInterfere ==
    \A t \in DOMAIN threads :
        /\ \A i \in DOMAIN threads[t].calls :
            /\ threads[t].calls[i].engine = threads[t].reviewer.engine
            /\ threads[t].calls[i].prompt = threads[t].master_prompt
            /\ threads[t].calls[i].engine = EngineGemini =>
                   threads[t].calls[i].credential = threads[t].reviewer.api_key
        /\ threads[t].report # Unbound => threads[t].report = OwnReport(t)

\* C14: both requests asked for Gemini with keys of their own, and the call
\* of the first went out with the key of the second.
C14_Witness ==
    /\ pc = "serving"
    /\ threads[1].reviewer.api_key = "key-1" /\ threads[2].reviewer.api_key = "key-2"
    /\ threads[1].calls # <<>> /\ threads[1].calls[1].credential = "key-2"
    /\ threads[1].outcome = delivered(Web)

(***************************************************************************)
(* Properties of the tone lookup.                                          *)
(***************************************************************************)
TonePhrases == { ToneCritical, ToneHarsh, ToneModerate, ToneGentle }

\* The calls of get_contextual_tone made so far.
Lookups == { i \in DOMAIN history : history[i].fn = "get_contextual_tone" }

\* C15: get_contextual_tone is a one-to-one table lookup: every severity
\* gets one of four fixed phrases, the same at every call whatever was looked
\* up before, and two different severities never get the same phrase.
C15_ToneLookupOneToOne ==
    \A i \in Lookups : \A j \in Lookups :
        (history[i].args.severity \in CommentSeverity /\ history[j].args.severity \in CommentSeverity) =>
            /\ history[i].ret \in TonePhrases
            /\ (history[i].args.severity = history[j].args.severity) <=> (history[i].ret = history[j].ret)

\* C15: all four severities cannot fit in one history; here three different
\* ones were looked up after each other.
C15_Witness ==
    /\ Len(history) = 3
    /\ history[1].args.severity = CRITICAL /\ history[1].ret = ToneCritical
    /\ history[2].args.severity = MODERATE /\ history[2].ret = ToneModerate
    /\ history[3].args.severity = HARSH /\ history[3].ret = ToneHarsh

\* C16: get_contextual_tone applied to a value that is not one of the four
\* severities fails with an error; it never returns a default phrase.
C16_UnmappedValueFails ==
    \A i \in Lookups :
        history[i].args.severity \notin CommentSeverity =>
            history[i].ret \in { TypeError, KeyError }

\* C16 as amended: applied to a value that is not one of the four severities,
\* get_contextual_tone returns the default phrase, and fails only when the
\* value cannot be a dict key at all.
C16_UnmappedValueDefaults ==
    \A i \in Lookups :
        history[i].args.severity \notin CommentSeverity =>
            history[i].ret = IF history[i].args.severity \in Unhashable
                             THEN TypeError ELSE ToneDefault

\* C16: None and the text "gentle" were looked up and got the default phrase,
\* which is none of the four.
C16_Witness ==
    /\ Len(history) = 2
    /\ history[1].args.severity = None /\ history[1].ret = ToneDefault
    /\ history[2].args.severity = "gentle" /\ history[2].ret = ToneDefault
    /\ ToneDefault \notin TonePhrases

(***************************************************************************)
(* The worked example: a snippet with a redundant comparison and two       *)
(* comments, one harsh in tone, one mild.                                  *)
(***************************************************************************)
\* "This is terrible code." and "maybe rename u"
ExampleTerrible ==
    <<"T","h","i","s"," ","i","s"," ","t","e","r","r","i","b","l","e"," ","c","o","d","e",".">>
ExampleMaybe == <<"m","a","y","b","e"," ","r","e","n","a","m","e"," ","u">>

ExampleInput ==
    /\ pc # "idle"
    /\ TheSnippet = SnippetBoolean
    /\ TheComments = << ExampleTerrible, ExampleMaybe >>

\* C17: for the snippet "def f(u):\n  if u == True:\n    return 1" and the
\* comments ["This is terrible code.", "maybe rename u"], the payload names
\* the severities critical and gentle in that order, lists boolean_redundancy
\* and single_letter_vars as the active patterns, and quotes both comments
\* verbatim as lines 1 and 2; the summary carries the paragraph of the high
\* encouragement level.
C17_WorkedExample ==
    ExampleInput =>
        /\ master_prompt # Unbound =>
            /\ SeverityLines =
                 << << "Comment ", "1", ": ", "critical", " severity - ", ToneCritical >>,
                    << "Comment ", "2", ": ", "gentle", " severity - ", ToneGentle >> >>
            /\ PatternsSection = << "boolean_redundancy", ", ", "single_letter_vars" >>
            /\ CommentLines =
                 << << "1", ". \"" >> \o ExampleTerrible \o << "\"" >>,
                    << "2", ". \"" >> \o ExampleMaybe \o << "\"" >> >>
        /\ summary # Unbound =>
            /\ summary[2] = summary_prompts_of(variant)["high"]
            /\ summary[2] # summary_prompts_of(variant)["extra_high"]
            /\ summary[2] # summary_prompts_of(variant)["standard"]

\* C17: the example went through the whole pipeline and its report was
\* delivered.
C17_Witness ==
    /\ ExampleInput
    /\ master_prompt # Unbound /\ summary # Unbound
    /\ Occurs("boolean_redundancy", master_prompt)
    /\ outcome = delivered(entry)

(***************************************************************************)
(* Properties of a reviewer used for several calls.                        *)
(***************************************************************************)
\* The calls of detect_code_patterns in a history.
Detections(h) == { i \in DOMAIN h : h[i].fn = "detect_code_patterns" }

\* C18: on one reviewer, whatever calls of analyze_comment_severity,
\* detect_code_patterns, create_master_prompt and process_review were made
\* before, detect_code_patterns returns for a snippet the flags its first
\* call on that snippet returned, and no call changes the severity_keywords
\* table, the code_patterns table or the caller's list of comments.
C18_DetectIsPureAndTablesFixed ==
    [][ /\ tables' = tables
        /\ caller_comments' = caller_comments
        /\ \A i \in Detections(history') : \A j \in Detections(history') :
              history'[i].args.code = history'[j].args.code =>
                  history'[i].ret = history'[j].ret ]_vars

\* C18: a snippet was examined, then a whole review was processed for a
\* non-empty list of comments, then the same snippet was examined again with
\* the same flags, one of them set.
C18_Witness ==
    /\ pc = "session" /\ Len(history) = 3
    /\ caller_comments # <<>>
    /\ history[1].fn = "detect_code_patterns" /\ history[1].args.code = SnippetBoolean
    /\ history[2].fn = "process_review"
    /\ history[3].fn = "detect_code_patterns" /\ history[3].args.code = SnippetBoolean
    /\ history[3].ret = history[1].ret
    /\ \E k \in DOMAIN history[3].ret : history[3].ret[k].found
    /\ tables = TablesOfInit

(***************************************************************************)
(* Properties of the web handler's responses.                              *)
(***************************************************************************)
Responses == { "http_200", "http_400", "http_500" }

\* C19: every request the web handler accepts ends with a response, the
\* report or a visible error response; a failure while constructing the
\* reviewer is answered with an error response and never ends the handler
\* without one.
C19_WebAlwaysResponds ==
    (entry = Web /\ pc = "done") => outcome \in Responses

\* C19: a valid request for Gemini reached the web handler on a host without
\* the library; the constructor called sys.exit(1) and the handler ended
\* without building a response.
C19_Witness ==
    /\ entry = Web /\ pc = "done"
    /\ web_input_ok(input_data)
    /\ requested = EngineGemini /\ ~ env.GEMINI_AVAILABLE
    /\ reviewer = NoReviewer /\ calls = <<>>
    /\ outcome = "system_exit" /\ output = Unbound

(***************************************************************************)
(* Properties of the engine field.                                         *)
(***************************************************************************)
NoEngineText == << "Error: No AI engine configured" >>

\* C20: once UltimateEmpathethicReviewer is constructed, whatever option was
\* requested, its engine field is GEMINI or OLLAMA, never AUTO, no later step
\* changes it, and call_ai_engine never returns the text
\* "Error: No AI engine configured".
C20_EngineResolvedAndFixed ==
    [][ variant = Ultimate =>
          /\ reviewer' # NoReviewer => reviewer'.engine \in { EngineGemini, EngineOllama }
          /\ reviewer # NoReviewer => reviewer' = reviewer
          /\ \A i \in DOMAIN calls' : calls'[i].result.value # NoEngineText
          /\ ai_response' # NoEngineText ]_vars

\* C20: the automatic option was requested, the reviewer was constructed
\* with Ollama as its engine, and its completion call answered.
C20_Witness ==
    /\ variant = Ultimate /\ requested = EngineAuto
    /\ reviewer.engine = EngineOllama
    /\ Len(calls) = 1 /\ calls[1].reply.kind = "text"
    /\ ai_response = calls[1].reply.text
    /\ pc = "done" /\ outcome = delivered(entry)

(***************************************************************************)
(* Properties relating the payload and the summary of one review.          *)
(***************************************************************************)
\* The severity lines of the payload that read harsh or critical.
HarshLines ==
    LET severity_lines == SeverityLines
    IN  { i \in DOMAIN severity_lines :
            Occurs("harsh", severity_lines[i]) \/ Occurs("critical", severity_lines[i]) }

\* C21: within one process_review call the summary agrees with the payload,
\* though the comments are classified once for each: the level is STANDARD
\* exactly when no severity line of the payload reads harsh or critical, and
\* the count the level is computed from is the number of such lines.
C21_SummaryAgreesWithPayload ==
    summary # Unbound =>
        LET harsh == Cardinality(HarshLines)
            total == Len(SeverityLines)
        IN  /\ summary[2] = summary_prompts_of(variant)["standard"] <=> harsh = 0
            /\ total_severity(TheComments) = harsh
            /\ summary[2] = summary_prompts_of(variant)[
                   IF 10 * harsh > 6 * total THEN "extra_high"
                   ELSE IF harsh > 0 THEN "high" ELSE "standard" ]

\* C21: a review of a critical, a gentle and a harsh comment was summarised:
\* two of the three severity lines read harsh or critical.
C21_Witness ==
    /\ summary # Unbound /\ master_prompt # Unbound
    /\ Len(TheComments) = 3
    /\ HarshLines = { 1, 3 }
    /\ Occurs("critical", SeverityLines[1]) /\ Occurs("gentle", SeverityLines[2])
    /\ Occurs("harsh", SeverityLines[3])
    /\ summary[2] = summary_prompts_of(variant)["extra_high"]

(***************************************************************************)
(* Properties of the classifier under concatenation.                       *)
(***************************************************************************)
\* C22: the severity of a followed by b is at least as harsh, in the order
\* GENTLE < MODERATE < HARSH < CRITICAL, as the severity of a and as the
\* severity of b.
C22_MonotoneUnderConcatenation ==
    Len(ret) = 3 => /\ Rank(ret[3]) >= Rank(ret[1])
                    /\ Rank(ret[3]) >= Rank(ret[2])

\* C22: two texts classified GENTLE apart whose concatenation holds a HARSH
\* keyword neither holds ("b" followed by "ad").
C22_Witness ==
    /\ Len(ret) = 3
    /\ args.a = << "b" >> /\ args.b = << "a", "d" >>
    /\ ret = << GENTLE, GENTLE, HARSH >>

(***************************************************************************)
(* Properties relating the three classes.                                  *)
(***************************************************************************)
\* C23: for the same snippet and the same comment list the three classes
\* return the same severity for each comment, the same pattern flags, the
\* same tone phrase for each severity and the same encouragement level.
C23_VariantsAgreeOnCore ==
    \A v \in DOMAIN ret : \A w \in DOMAIN ret : ret[v] = ret[w]

\* C23: all three classes have answered for a snippet with a redundant
\* boolean comparison and a review of a harsh and a moderate comment.
C23_Witness ==
    /\ DOMAIN ret = Variants
    /\ ret[Advanced].severities = << HARSH, MODERATE >>
    /\ ret[Gemini].level = "high"
    /\ \E i \in DOMAIN ret[Ultimate].patterns :
          /\ ret[Ultimate].patterns[i].name = "boolean_redundancy"
          /\ ret[Ultimate].patterns[i].found

====
